---- MODULE Spec2Model ----
(***************************************************************************)
(* Model of markdown-to-notionapi: the Markdown-AST-to-Notion-block        *)
(* converter (internal/markdown/convert.go), the Notion API client with    *)
(* its retry loop (internal/notion/client.go) and the sync operations of   *)
(* the runner (internal/run/run.go).                                       *)
(*                                                                         *)
(* Strings of the program are sequences of one-character strings, one per  *)
(* byte, so that slicing, searching, lower-casing and URL parsing are      *)
(* computed as the code computes them.  A Go pointer is a sequence of      *)
(* length 0 (nil) or 1.  The durations the client waits for are 64-bit     *)
(* integers of nanoseconds, held in four 16-bit limbs.                     *)
(*                                                                         *)
(* Spec runs Convert over a document; RunSpec runs one sync operation of   *)
(* Run over a sequence of already converted blocks against a Notion server *)
(* that answers each HTTP attempt as it pleases.  Each specification holds *)
(* the variables of the other at their initial values.                     *)
(***************************************************************************)
EXTENDS Integers, Sequences, FiniteSets, TLC

VARIABLES
    doc,            \* top-level children of the parsed document (Convert: doc)
    imageBaseURL,   \* Converter.imageBaseURL
    child,          \* Convert's loop cursor: index of the next top-level child
    nodeBlocks,     \* Convert's local nodeBlocks: result of the last convertNode
    blocks,         \* Convert's accumulated blocks
    err,            \* Convert's returned error (TRUE = non-nil)
    pc,             \* "loop" while Convert iterates, "done" once it has returned
    \* Run (internal/run/run.go)
    mode,           \* Config.Create and Config.Replace: "create", "replace",
                    \* "both", or "append" (neither)
    dryRun,         \* Config.DryRun
    runBlocks,      \* Run's blocks (the result of Convert), as block identities
    rpc,            \* position of Run and of the client method it has called
    runErr,         \* the error Run returned (Nil while running or on success)
    output,         \* what printDryRun wrote (Nil: nothing)
    \* ListBlockChildren, replacePage, AppendBlockChildren (loop locals)
    cursor,         \* ListBlockChildren: cursor
    allBlocks,      \* ListBlockChildren: allBlocks; replacePage: existingBlocks
    delIdx,         \* replacePage: index of the next block to delete
    chunkStart,     \* AppendBlockChildren: i
    \* makeRequest (locals and position)
    mpc,            \* "idle", "top", "backoffWait", "do", "inflight", "resp", "rateWait", "ret"
    req,            \* the request makeRequest was called for
    attempt,        \* loop counter
    backoff,        \* in seconds
    lastErr,        \* error of the last failed attempt (Nil: none)
    resp,           \* outcome of httpClient.Do and io.ReadAll in this iteration (Nil: none yet)
    waitDur,        \* duration of the time.After the select waits on (int64, ns)
    wake,           \* which case of the select has become ready ("none", "timer", "cancel")
    mret,           \* the error makeRequest returned (Nil: nil)
    \* context, network, server
    cancelled,      \* ctx.Done() is closed
    net,            \* requests sent and not answered yet
    remote,         \* children of the target page on the server
    pages,          \* number of pages the server has created
    faults,         \* answers other than a valid 2xx given so far
    \* history
    attempts,       \* httpClient.Do calls of the current makeRequest
    lastStatus,     \* status of the response to the latest attempt (0: none read)
    batches         \* chunks AppendBlockChildren has called makeRequest with

convertVars == <<doc, imageBaseURL, child, nodeBlocks, blocks, err, pc>>

runVars == <<mode, dryRun, runBlocks, rpc, runErr, output>>

loopVars == <<cursor, allBlocks, delIdx, chunkStart>>

requestVars == <<mpc, req, attempt, backoff, lastErr, resp, waitDur, wake, mret, attempts,
                lastStatus>>

serverVars == <<net, remote, pages, faults>>

syncVars == <<runVars, loopVars, requestVars, cancelled, serverVars, batches>>

vars == <<convertVars, syncVars>>

-----------------------------------------------------------------------------
(* Pointers and strings *)

Nil == <<>>

Ptr(x) == <<x>>

Deref(p) == p[1]

\* strings.HasPrefix(s, prefix)
HasPrefix(s, prefix) ==
    /\ Len(s) >= Len(prefix)
    /\ SubSeq(s, 1, Len(prefix)) = prefix

\* s[from:] with a 0-based Go index
SliceFrom(s, from) == SubSeq(s, from + 1, Len(s))

\* s[:to] with a 0-based Go index
SliceTo(s, to) == SubSeq(s, 1, to)

\* the positions (1-based) of character c in s
Positions(s, c) == {i \in 1..Len(s) : s[i] = c}

\* strings.Index(s, c) for a one-character needle: 0-based, -1 when absent
IndexByte(s, c) ==
    LET at == Positions(s, c)
    IN  IF at = {} THEN -1 ELSE (CHOOSE i \in at : \A j \in at : i <= j) - 1

\* strings.LastIndex(s, c) for a one-character needle: 0-based, -1 when absent
LastIndex(s, c) ==
    LET at == Positions(s, c)
    IN  IF at = {} THEN -1 ELSE (CHOOSE i \in at : \A j \in at : j <= i) - 1

UpperToLower ==
    [c \in {"A", "B", "C", "D", "E", "F", "G", "H", "I", "J", "K", "L", "M",
            "N", "O", "P", "Q", "R", "S", "T", "U", "V", "W", "X", "Y", "Z"} |->
        CASE c = "A" -> "a" [] c = "B" -> "b" [] c = "C" -> "c" [] c = "D" -> "d"
          [] c = "E" -> "e" [] c = "F" -> "f" [] c = "G" -> "g" [] c = "H" -> "h"
          [] c = "I" -> "i" [] c = "J" -> "j" [] c = "K" -> "k" [] c = "L" -> "l"
          [] c = "M" -> "m" [] c = "N" -> "n" [] c = "O" -> "o" [] c = "P" -> "p"
          [] c = "Q" -> "q" [] c = "R" -> "r" [] c = "S" -> "s" [] c = "T" -> "t"
          [] c = "U" -> "u" [] c = "V" -> "v" [] c = "W" -> "w" [] c = "X" -> "x"
          [] c = "Y" -> "y" [] c = "Z" -> "z"]

LowerLetters ==
    {"a", "b", "c", "d", "e", "f", "g", "h", "i", "j", "k", "l", "m",
     "n", "o", "p", "q", "r", "s", "t", "u", "v", "w", "x", "y", "z"}

IsLetter(c) == c \in LowerLetters \/ c \in DOMAIN UpperToLower

\* strings.ToLower
ToLower(s) ==
    [i \in 1..Len(s) |-> IF s[i] \in DOMAIN UpperToLower THEN UpperToLower[s[i]] ELSE s[i]]

IsSpace(c) == c \in {" ", "\t", "\n"}

RECURSIVE TrimLeft(_)
TrimLeft(s) ==
    IF s # <<>> /\ IsSpace(Head(s)) THEN TrimLeft(Tail(s)) ELSE s

RECURSIVE TrimRight(_)
TrimRight(s) ==
    IF s # <<>> /\ IsSpace(s[Len(s)]) THEN TrimRight(SubSeq(s, 1, Len(s) - 1)) ELSE s

\* strings.TrimSpace
TrimSpace(s) == TrimRight(TrimLeft(s))

-----------------------------------------------------------------------------
(* The parsed Markdown AST (goldmark): one record shape for every node kind. *)

\* A node of kind `kind` with the given children; the other fields at their
\* zero values (level: Heading/Emphasis, ordered: List, dest: Image/Link,
\* info: FencedCodeBlock (pointer), lines: code blocks, value: leaf text).
Node(kind, children) ==
    [kind |-> kind, children |-> children, level |-> 0, ordered |-> FALSE,
     dest |-> <<>>, info |-> Nil, lines |-> <<>>, value |-> <<>>]

Leaf(kind, value) == [Node(kind, <<>>) EXCEPT !.value = value]

-----------------------------------------------------------------------------
(* notion.RichText, notion.Annotations, notion.Block (internal/notion/types.go) *)

Annotations ==
    [Bold |-> FALSE, Italic |-> FALSE, Strikethrough |-> FALSE,
     Underline |-> FALSE, Code |-> FALSE]

\* notion.RichText{Type: "text", Text: &notion.Text{Content: content}}
RichText(content) ==
    [Type |-> "text", Content |-> content, Annotations |-> Nil, Href |-> Nil]

\* The type-specific variant fields of notion.Block
VariantFields ==
    {"Paragraph", "Heading1", "Heading2", "Heading3", "Code", "Quote", "Divider",
     "Image", "BulletedListItem", "NumberedListItem", "Table", "TableRow"}

\* &notion.Block{Object: "block"}: every variant pointer nil
Block ==
    [Object |-> "block", Type |-> "", Paragraph |-> Nil, Heading1 |-> Nil,
     Heading2 |-> Nil, Heading3 |-> Nil, Code |-> Nil, Quote |-> Nil,
     Divider |-> Nil, Image |-> Nil, BulletedListItem |-> Nil,
     NumberedListItem |-> Nil, Table |-> Nil, TableRow |-> Nil, Children |-> <<>>]

-----------------------------------------------------------------------------
(* Inline Formatter *)

RECURSIVE convertInlineNode(_)
RECURSIVE convertInlineFrom(_, _)

\* the loop of convertInlineNodes from the i-th child on
convertInlineFrom(children, i) ==
    IF i > Len(children) THEN <<>>
    ELSE convertInlineNode(children[i]) \o convertInlineFrom(children, i + 1)

convertInlineNodes(parent) == convertInlineFrom(parent.children, 1)

\* applyEmphasis assigning a fresh Annotations value that carries the one flag
applyEmphasis_replaces(text, level) ==
    [text EXCEPT !.Annotations =
        Ptr(IF level = 2 THEN [Annotations EXCEPT !.Bold = TRUE]
                         ELSE [Annotations EXCEPT !.Italic = TRUE])]

\* the Emphasis case's loop body: allocate Annotations when nil, then set one flag
applyEmphasis(text, level) ==
    LET a == IF text.Annotations = Nil THEN Annotations ELSE Deref(text.Annotations)
    IN  [text EXCEPT !.Annotations =
            Ptr(IF level = 2 THEN [a EXCEPT !.Bold = TRUE]
                             ELSE [a EXCEPT !.Italic = TRUE])]

convertInlineNode(n) ==
    CASE n.kind = "String" -> <<RichText(n.value)>>
      [] n.kind = "Text" -> <<RichText(n.value)>>
      [] n.kind = "CodeSpan" ->
            <<[RichText(n.value) EXCEPT
                  !.Annotations = Ptr([Annotations EXCEPT !.Code = TRUE])]>>
      [] n.kind = "Emphasis" ->
            LET texts == convertInlineNodes(n)
            IN  [i \in 1..Len(texts) |-> applyEmphasis(texts[i], n.level)]
      [] n.kind = "Link" ->
            LET texts == convertInlineNodes(n)
            IN  [i \in 1..Len(texts) |-> [texts[i] EXCEPT !.Href = Ptr(n.dest)]]
      [] n.kind = "AutoLink" ->
            <<[RichText(n.value) EXCEPT !.Href = Ptr(n.value)]>>
      [] n.kind = "Image" -> <<>>
      [] OTHER ->
            IF n.children # <<>> THEN convertInlineNodes(n) ELSE <<>>

-----------------------------------------------------------------------------
(* Block Converter: headings, quotes, dividers, lists *)

\* convertHeading whose default case populates Heading2 under the tag heading_3
convertHeading_wrongField(node) ==
    LET heading == Ptr([RichText |-> convertInlineNodes(node)])
    IN  Ptr(CASE node.level = 1 -> [Block EXCEPT !.Type = "heading_1", !.Heading1 = heading]
              [] node.level = 2 -> [Block EXCEPT !.Type = "heading_2", !.Heading2 = heading]
              [] node.level = 3 -> [Block EXCEPT !.Type = "heading_3", !.Heading3 = heading]
              [] OTHER -> [Block EXCEPT !.Type = "heading_3", !.Heading2 = heading])

\* convertHeading whose default case leaves levels above 3 under their own tag
convertHeading_unclamped(node) ==
    LET heading == Ptr([RichText |-> convertInlineNodes(node)])
    IN  Ptr(CASE node.level = 1 -> [Block EXCEPT !.Type = "heading_1", !.Heading1 = heading]
              [] node.level = 2 -> [Block EXCEPT !.Type = "heading_2", !.Heading2 = heading]
              [] node.level = 3 -> [Block EXCEPT !.Type = "heading_3", !.Heading3 = heading]
              [] node.level = 4 -> [Block EXCEPT !.Type = "heading_4", !.Heading3 = heading]
              [] node.level = 5 -> [Block EXCEPT !.Type = "heading_5", !.Heading3 = heading]
              [] OTHER -> [Block EXCEPT !.Type = "heading_6", !.Heading3 = heading])

convertHeading(node) ==
    LET heading == Ptr([RichText |-> convertInlineNodes(node)])
    IN  Ptr(CASE node.level = 1 -> [Block EXCEPT !.Type = "heading_1", !.Heading1 = heading]
              [] node.level = 2 -> [Block EXCEPT !.Type = "heading_2", !.Heading2 = heading]
              [] node.level = 3 -> [Block EXCEPT !.Type = "heading_3", !.Heading3 = heading]
              [] OTHER -> [Block EXCEPT !.Type = "heading_3", !.Heading3 = heading])

convertBlockquote(node) ==
    Ptr([Block EXCEPT !.Type = "quote",
                      !.Quote = Ptr([RichText |-> convertInlineNodes(node)])])

convertThematicBreak ==
    Ptr([Block EXCEPT !.Type = "divider", !.Divider = Ptr([Empty |-> TRUE])])

RECURSIVE convertListItem(_, _)
RECURSIVE nestedItemsFrom(_, _)
RECURSIVE nestedListsFrom(_, _)

\* nestedItemsFrom keeping the first item of a nested list only, as convertList does
nestedItemsFrom_firstOnly(list, i) ==
    IF i > 1 \/ i > Len(list.children) THEN <<>>
    ELSE IF list.children[i].kind = "ListItem"
    THEN <<Deref(convertListItem(list.children[i], list.ordered))>>
    ELSE <<>>

\* inner loop of convertListItem: the items of one nested list, from the i-th on
nestedItemsFrom(list, i) ==
    IF i > Len(list.children) THEN <<>>
    ELSE (IF list.children[i].kind = "ListItem"
          THEN <<Deref(convertListItem(list.children[i], list.ordered))>>
          ELSE <<>>) \o nestedItemsFrom(list, i + 1)

\* outer loop of convertListItem: the children of the item, from the i-th on
nestedListsFrom(node, i) ==
    IF i > Len(node.children) THEN <<>>
    ELSE (IF node.children[i].kind = "List"
          THEN nestedItemsFrom(node.children[i], 1)
          ELSE <<>>) \o nestedListsFrom(node, i + 1)

convertListItem(node, isOrdered) ==
    LET richText == convertInlineNodes(node)
        children == nestedListsFrom(node, 1)
    IN  Ptr(IF isOrdered
            THEN [Block EXCEPT !.Type = "numbered_list_item",
                     !.NumberedListItem = Ptr([RichText |-> richText, Children |-> children])]
            ELSE [Block EXCEPT !.Type = "bulleted_list_item",
                     !.BulletedListItem = Ptr([RichText |-> richText, Children |-> children])])

convertList(node) ==
    IF node.children = <<>> THEN Nil
    ELSE convertListItem(node.children[1], node.ordered)

-----------------------------------------------------------------------------
(* Code blocks *)

maxChars == 2000

minDistanceFromLimit == 200

L_js == <<"j", "s">>

L_javascript == <<"j", "a", "v", "a", "s", "c", "r", "i", "p", "t">>

L_ts == <<"t", "s">>

L_typescript == <<"t", "y", "p", "e", "s", "c", "r", "i", "p", "t">>

L_py == <<"p", "y">>

L_python == <<"p", "y", "t", "h", "o", "n">>

L_go == <<"g", "o">>

L_golang == <<"g", "o", "l", "a", "n", "g">>

L_sh == <<"s", "h">>

L_bash == <<"b", "a", "s", "h">>

L_shell == <<"s", "h", "e", "l", "l">>

L_yml == <<"y", "m", "l">>

L_yaml == <<"y", "a", "m", "l">>

L_json == <<"j", "s", "o", "n">>

L_xml == <<"x", "m", "l">>

L_html == <<"h", "t", "m", "l">>

L_css == <<"c", "s", "s">>

L_sql == <<"s", "q", "l">>

L_md == <<"m", "d">>

L_markdown == <<"m", "a", "r", "k", "d", "o", "w", "n">>

PlainText == <<"p", "l", "a", "i", "n", " ", "t", "e", "x", "t">>

\* mapLanguage: lower-case and trim, then the switch over the known identifiers
mapLanguage(language) ==
    LET lang == ToLower(TrimSpace(language))
    IN  CASE lang \in {L_js, L_javascript} -> L_javascript
          [] lang \in {L_ts, L_typescript} -> L_typescript
          [] lang \in {L_py, L_python} -> L_python
          [] lang \in {L_go, L_golang} -> L_go
          [] lang \in {L_sh, L_bash, L_shell} -> L_bash
          [] lang \in {L_yml, L_yaml} -> L_yaml
          [] lang = L_json -> L_json
          [] lang = L_xml -> L_xml
          [] lang = L_html -> L_html
          [] lang = L_css -> L_css
          [] lang = L_sql -> L_sql
          [] lang \in {L_md, L_markdown} -> L_markdown
          [] lang = <<>> -> PlainText
          [] OTHER -> lang

\* one code block: the literal both branches of createCodeBlocks build
codeBlock(content, language) ==
    [Block EXCEPT !.Type = "code",
                  !.Code = Ptr([RichText |-> <<RichText(content)>>,
                                Language |-> language, Caption |-> <<>>])]

\* chunkSizeOf that takes the character at the boundary into the chunk
chunkSizeOf_pastBoundary(content) ==
    IF Len(content) > maxChars THEN maxChars + 1 ELSE Len(content)

\* chunkSizeOf that moves the cut back to the last newline wherever it is
chunkSizeOf_anyNewline(content) ==
    LET chunkSize == IF Len(content) < maxChars THEN Len(content) ELSE maxChars
    IN  IF chunkSize = maxChars /\ chunkSize < Len(content)
        THEN LET lastNewline == LastIndex(SliceTo(content, chunkSize), "\n")
             IN  IF lastNewline > 0 THEN lastNewline + 1 ELSE chunkSize
        ELSE chunkSize

\* the size of the next chunk: maxChars or what is left, moved back to just
\* after the last newline of the candidate when that newline is close enough
chunkSizeOf(content) ==
    LET chunkSize == IF Len(content) < maxChars THEN Len(content) ELSE maxChars
    IN  IF chunkSize = maxChars /\ chunkSize < Len(content)
        THEN LET lastNewline == LastIndex(SliceTo(content, chunkSize), "\n")
             IN  IF lastNewline > 0 /\ lastNewline > maxChars - minDistanceFromLimit
                 THEN lastNewline + 1
                 ELSE chunkSize
        ELSE chunkSize

\* chunk := content[:chunkSize]
codeChunk(content, chunkSize) == SliceTo(content, chunkSize)

\* codeRest with the slice starting one character late
codeRest_skipsOne(content, chunkSize) == SliceFrom(content, chunkSize + 1)

\* content = content[chunkSize:]
codeRest(content, chunkSize) == SliceFrom(content, chunkSize)

RECURSIVE splitLoop(_, _)
\* the loop `for len(content) > 0` of createCodeBlocks
splitLoop(content, language) ==
    IF Len(content) > 0
    THEN LET chunkSize == chunkSizeOf(content)
         IN  <<codeBlock(codeChunk(content, chunkSize), language)>>
                \o splitLoop(codeRest(content, chunkSize), language)
    ELSE <<>>

\* createCodeBlocks without the early return for content that fits one block
createCodeBlocks_noEarlyReturn(content, language) == splitLoop(content, language)

createCodeBlocks(content, language) ==
    IF Len(content) <= maxChars
    THEN <<codeBlock(content, language)>>
    ELSE splitLoop(content, language)

RECURSIVE concatLines(_)
\* content.Write(line.Value(source)) for every line of the node
concatLines(lines) ==
    IF lines = <<>> THEN <<>> ELSE Head(lines) \o concatLines(Tail(lines))

convertCodeBlock(node) == createCodeBlocks(concatLines(node.lines), PlainText)

convertFencedCodeBlock(node) ==
    LET language == IF node.info # Nil THEN Deref(node.info) ELSE <<>>
    IN  createCodeBlocks(concatLines(node.lines), mapLanguage(language))

-----------------------------------------------------------------------------
(* URL Resolver.  url.Parse, URL.String and path.Join are computed over the  *)
(* characters of the string; user-info, ports and percent-escapes are not    *)
(* modelled and stay out of the inputs.                                      *)

Digits == {"0", "1", "2", "3", "4", "5", "6", "7", "8", "9"}

\* index (1-based) of the first character that ends the scan of getScheme:
\* any character that is not a letter, or a digit/+/-/. at the very start;
\* Len(s) + 1 when the scan reaches the end
schemeStop(s) ==
    LET stops == {i \in 1..Len(s) :
                    ~ IsLetter(s[i]) /\ ~ (i > 1 /\ s[i] \in Digits \cup {"+", "-", "."})}
    IN  IF stops = {} THEN Len(s) + 1
        ELSE CHOOSE i \in stops : \A j \in stops : i <= j

\* getScheme: [ok, scheme, rest]
getScheme(s) ==
    LET i == schemeStop(s)
    IN  IF i <= Len(s) /\ s[i] = ":"
        THEN IF i = 1 THEN [ok |-> FALSE, scheme |-> <<>>, rest |-> <<>>]
             ELSE [ok |-> TRUE, scheme |-> SubSeq(s, 1, i - 1), rest |-> SubSeq(s, i + 1, Len(s))]
        ELSE [ok |-> TRUE, scheme |-> <<>>, rest |-> s]

URL ==
    [ok |-> TRUE, Scheme |-> <<>>, Opaque |-> <<>>, Host |-> <<>>, Path |-> <<>>,
     RawQuery |-> <<>>, Fragment |-> <<>>]

\* url.Parse after the scheme and the query are cut off: the opaque part, or
\* the authority and the path
parseHier(scheme, rest, query, frag) ==
    IF ~ HasPrefix(rest, <<"/">>) /\ scheme # <<>>
    THEN [URL EXCEPT !.Scheme = scheme, !.RawQuery = query, !.Fragment = frag,
                     !.Opaque = rest]
    ELSE IF ~ HasPrefix(rest, <<"/">>)
            /\ IndexByte(SliceTo(rest, IndexByte(rest \o <<"/">>, "/")), ":") >= 0
    THEN [URL EXCEPT !.ok = FALSE]
    ELSE IF (scheme # <<>> \/ ~ HasPrefix(rest, <<"/", "/", "/">>))
            /\ HasPrefix(rest, <<"/", "/">>)
    THEN [URL EXCEPT !.Scheme = scheme, !.RawQuery = query, !.Fragment = frag,
                     !.Host = SliceTo(SliceFrom(rest, 2),
                                      IndexByte(SliceFrom(rest, 2) \o <<"/">>, "/")),
                     !.Path = SliceFrom(SliceFrom(rest, 2),
                                        IndexByte(SliceFrom(rest, 2) \o <<"/">>, "/"))]
    ELSE [URL EXCEPT !.Scheme = scheme, !.RawQuery = query, !.Fragment = frag,
                     !.Path = rest]

\* strings.Cut(s, c): what precedes and what follows the first c (all of s
\* and nothing when c is absent)
CutBefore(s, c) == SliceTo(s, IndexByte(s \o <<c>>, c))

CutAfter(s, c) == SliceFrom(s, IndexByte(s \o <<c>>, c) + 1)

\* url.Parse after the fragment is cut off: the scheme is lower-cased and the
\* query split from the rest
parseNoFrag(sch, noFrag, frag) ==
    IF ~ sch.ok THEN [URL EXCEPT !.ok = FALSE]
    ELSE IF noFrag = <<>> THEN [URL EXCEPT !.Fragment = frag]
    ELSE parseHier(ToLower(sch.scheme), CutBefore(sch.rest, "?"),
                   CutAfter(sch.rest, "?"), frag)

\* url.Parse(rawURL): the fragment is cut off first, then scheme, query,
\* opaque part or authority, and path
urlParse(rawURL) ==
    parseNoFrag(getScheme(CutBefore(rawURL, "#")), CutBefore(rawURL, "#"),
                CutAfter(rawURL, "#"))

\* URL.String(): "//" and the host
urlAuthority(u) ==
    IF (u.Scheme # <<>> \/ u.Host # <<>>) /\ (u.Host # <<>> \/ u.Path # <<>>)
    THEN <<"/", "/">> \o u.Host ELSE <<>>

\* URL.String(): the path, after "/" when a host precedes a relative path and
\* after "./" when nothing precedes a first segment holding a colon
urlPath(u, before) ==
    (IF u.Path # <<>> /\ u.Path[1] # "/" /\ u.Host # <<>> THEN <<"/">>
     ELSE IF before = <<>> /\ IndexByte(CutBefore(u.Path, "/"), ":") >= 0 THEN <<".", "/">>
     ELSE <<>>) \o u.Path

\* URL.String(): what follows the scheme
urlHier(u, before) ==
    IF u.Opaque # <<>> THEN before \o u.Opaque ELSE before \o urlPath(u, before)

\* URL.String()
urlString(u) ==
    urlHier(u, (IF u.Scheme # <<>> THEN u.Scheme \o <<":">> ELSE <<>>) \o
               (IF u.Opaque # <<>> THEN <<>> ELSE urlAuthority(u)))
        \o (IF u.RawQuery # <<>> THEN <<"?">> \o u.RawQuery ELSE <<>>)
        \o (IF u.Fragment # <<>> THEN <<"#">> \o u.Fragment ELSE <<>>)

RECURSIVE splitSlash(_)
\* strings.Split(s, "/")
splitSlash(s) ==
    LET i == IndexByte(s, "/")
    IN  IF i < 0 THEN <<s>> ELSE <<SliceTo(s, i)>> \o splitSlash(SliceFrom(s, i + 1))

RECURSIVE cleanSegments(_, _, _)
\* path.Clean's pass over the elements: "" and "." vanish, ".." removes the
\* element before it, is dropped at the root and is kept at the start of a
\* relative path
cleanSegments(segs, out, rooted) ==
    IF segs = <<>> THEN out
    ELSE LET sg == Head(segs)
         IN  CASE sg = <<>> \/ sg = <<".">> -> cleanSegments(Tail(segs), out, rooted)
               [] sg = <<".", ".">> ->
                    IF out # <<>> /\ out[Len(out)] # <<".", ".">>
                    THEN cleanSegments(Tail(segs), SubSeq(out, 1, Len(out) - 1), rooted)
                    ELSE IF rooted THEN cleanSegments(Tail(segs), out, rooted)
                    ELSE cleanSegments(Tail(segs), Append(out, sg), rooted)
               [] OTHER -> cleanSegments(Tail(segs), Append(out, sg), rooted)

RECURSIVE joinSlash(_)
joinSlash(segs) ==
    IF segs = <<>> THEN <<>>
    ELSE IF Len(segs) = 1 THEN Head(segs)
    ELSE Head(segs) \o <<"/">> \o joinSlash(Tail(segs))

\* path.Clean
pathClean(p) ==
    LET rooted == HasPrefix(p, <<"/">>)
        body == joinSlash(cleanSegments(splitSlash(p), <<>>, rooted))
        out == (IF rooted THEN <<"/">> ELSE <<>>) \o body
    IN  IF out = <<>> THEN <<".">> ELSE out

\* path.Join(a, b): empty elements are ignored, the rest joined by "/" and cleaned
pathJoin(a, b) ==
    IF a = <<>> /\ b = <<>> THEN <<>>
    ELSE IF a = <<>> THEN pathClean(b)
    ELSE IF b = <<>> THEN pathClean(a)
    ELSE pathClean(a \o <<"/">> \o b)

isAbsoluteURL(urlStr) ==
    LET u == urlParse(urlStr)
    IN  u.ok /\ u.Scheme # <<>>

joinURL(baseURL, relativePath) ==
    LET u == urlParse(baseURL)
    IN  IF ~ u.ok THEN relativePath
        ELSE urlString([u EXCEPT !.Path = pathJoin(u.Path, relativePath)])

P_attachment == <<"a", "t", "t", "a", "c", "h", "m", "e", "n", "t", ":">>

P_data == <<"d", "a", "t", "a", ":">>

S_http == <<"h", "t", "t", "p">>

S_https == <<"h", "t", "t", "p", "s">>

\* isValidImageURL without the scheme test on absolute URLs
isValidImageURL_anyScheme(urlStr) ==
    IF urlStr = <<>> THEN FALSE
    ELSE IF HasPrefix(urlStr, P_attachment) THEN FALSE
    ELSE IF HasPrefix(urlStr, P_data) THEN FALSE
    ELSE IF ~ isAbsoluteURL(urlStr) THEN TRUE
    ELSE urlParse(urlStr).ok

\* the last test of isValidImageURL: an absolute URL of scheme http or https
httpScheme(u) ==
    u.ok /\ u.Scheme # <<>> /\ (u.Scheme = S_http \/ u.Scheme = S_https)

isValidImageURL(urlStr) ==
    IF urlStr = <<>> THEN FALSE
    ELSE IF HasPrefix(urlStr, P_attachment) THEN FALSE
    ELSE IF HasPrefix(urlStr, P_data) THEN FALSE
    ELSE IF ~ isAbsoluteURL(urlStr) THEN TRUE
    ELSE httpScheme(urlParse(urlStr))

-----------------------------------------------------------------------------
(* Block Converter: images, paragraphs, tables, dispatch *)

\* the alt text: the first child when it is a Text or a String node
imageCaption(node) ==
    IF node.children # <<>> /\ node.children[1].kind \in {"Text", "String"}
    THEN <<RichText(node.children[1].value)>>
    ELSE <<>>

\* the image block convertImage returns for the resolved URL src
imageBlock(node, src) ==
    Ptr([Block EXCEPT !.Type = "image",
            !.Image = Ptr([Type |-> "external", External |-> Ptr([URL |-> src]),
                           Caption |-> imageCaption(node)])])

\* convertImage validating the joined URL a second time
convertImage_revalidates(node, baseURL) ==
    IF ~ isValidImageURL(node.dest) THEN Nil
    ELSE IF isAbsoluteURL(node.dest) THEN imageBlock(node, node.dest)
    ELSE IF baseURL = <<>> THEN Nil
    ELSE IF ~ httpScheme(urlParse(joinURL(baseURL, node.dest))) THEN Nil
    ELSE imageBlock(node, joinURL(baseURL, node.dest))

convertImage(node, baseURL) ==
    IF ~ isValidImageURL(node.dest) THEN Nil
    ELSE IF isAbsoluteURL(node.dest) THEN imageBlock(node, node.dest)
    ELSE IF baseURL = <<>> THEN Nil
    ELSE imageBlock(node, joinURL(baseURL, node.dest))

convertParagraph(node, baseURL) ==
    IF Len(node.children) = 1 /\ node.children[1].kind = "Image"
    THEN convertImage(node.children[1], baseURL)
    ELSE LET richText == convertInlineNodes(node)
         IN  IF Len(richText) = 0 THEN Nil
             ELSE Ptr([Block EXCEPT !.Type = "paragraph",
                          !.Paragraph = Ptr([RichText |-> richText])])

convertTableCellToRichText(cell) ==
    LET richTexts == convertInlineNodes(cell)
    IN  IF Len(richTexts) = 0 THEN <<RichText(<<>>)>> ELSE richTexts

RECURSIVE rowCellsFrom(_, _)
\* the loop over a row's children: one rich-text sequence per TableCell
rowCellsFrom(row, i) ==
    IF i > Len(row.children) THEN <<>>
    ELSE (IF row.children[i].kind = "TableCell"
          THEN <<convertTableCellToRichText(row.children[i])>>
          ELSE <<>>) \o rowCellsFrom(row, i + 1)

convertTableHeaderToBlock(header) ==
    [Block EXCEPT !.Type = "table_row",
                  !.TableRow = Ptr([Cells |-> rowCellsFrom(header, 1)])]

convertTableRowToBlock(row) ==
    [Block EXCEPT !.Type = "table_row",
                  !.TableRow = Ptr([Cells |-> rowCellsFrom(row, 1)])]

\* the column count of one row: its TableCell children
countCells(row) ==
    Cardinality({i \in 1..Len(row.children) : row.children[i].kind = "TableCell"})

RECURSIVE tableLoop_lastRowWidth(_, _, _)
\* tableLoop counting the columns of every row, not of the first one only
tableLoop_lastRowWidth(node, i, st) ==
    IF i > Len(node.children) THEN st
    ELSE LET n == node.children[i]
         IN  CASE n.kind = "TableHeader" ->
                    tableLoop_lastRowWidth(node, i + 1,
                        [tableWidth |-> countCells(n), hasColumnHeader |-> TRUE,
                         tableRows |-> Append(st.tableRows, convertTableHeaderToBlock(n))])
               [] n.kind = "TableRow" ->
                    tableLoop_lastRowWidth(node, i + 1,
                        [tableWidth |-> countCells(n), hasColumnHeader |-> st.hasColumnHeader,
                         tableRows |-> Append(st.tableRows, convertTableRowToBlock(n))])
               [] OTHER -> tableLoop_lastRowWidth(node, i + 1, st)

RECURSIVE tableLoop(_, _, _)
\* the loop of convertTable from the i-th child on; st holds tableWidth,
\* tableRows and hasColumnHeader
tableLoop(node, i, st) ==
    IF i > Len(node.children) THEN st
    ELSE LET n == node.children[i]
             width == IF st.tableWidth = 0 THEN countCells(n) ELSE st.tableWidth
         IN  CASE n.kind = "TableHeader" ->
                    tableLoop(node, i + 1,
                        [tableWidth |-> width, hasColumnHeader |-> TRUE,
                         tableRows |-> Append(st.tableRows, convertTableHeaderToBlock(n))])
               [] n.kind = "TableRow" ->
                    tableLoop(node, i + 1,
                        [tableWidth |-> width, hasColumnHeader |-> st.hasColumnHeader,
                         tableRows |-> Append(st.tableRows, convertTableRowToBlock(n))])
               [] OTHER -> tableLoop(node, i + 1, st)

convertTable(node) ==
    LET st == tableLoop(node, 1,
                  [tableWidth |-> 0, hasColumnHeader |-> FALSE, tableRows |-> <<>>])
    IN  <<[Block EXCEPT !.Type = "table",
              !.Table = Ptr([TableWidth |-> st.tableWidth,
                             HasColumnHeader |-> st.hasColumnHeader,
                             HasRowHeader |-> FALSE,
                             Children |-> st.tableRows])]>>

\* `if err != nil || block == nil { return nil, err }; return []Block{*block}, nil`
oneBlock(block) == IF block = Nil THEN <<>> ELSE <<Deref(block)>>

\* convertNode reporting an HTML block as an error
convertNode_skipIsError(node, baseURL) ==
    [err |-> node.kind = "HTMLBlock",
     blocks |->
        CASE node.kind = "Heading" -> oneBlock(convertHeading(node))
          [] node.kind = "Paragraph" -> oneBlock(convertParagraph(node, baseURL))
          [] node.kind = "List" -> oneBlock(convertList(node))
          [] node.kind = "Blockquote" -> oneBlock(convertBlockquote(node))
          [] node.kind = "CodeBlock" -> convertCodeBlock(node)
          [] node.kind = "FencedCodeBlock" -> convertFencedCodeBlock(node)
          [] node.kind = "ThematicBreak" -> oneBlock(convertThematicBreak)
          [] node.kind = "Table" -> convertTable(node)
          [] OTHER -> <<>>]

\* convertNode: the blocks of one top-level node and the error (always nil:
\* no conversion function of the package ever returns one)
convertNode(node, baseURL) ==
    [err |-> FALSE,
     blocks |->
        CASE node.kind = "Heading" -> oneBlock(convertHeading(node))
          [] node.kind = "Paragraph" -> oneBlock(convertParagraph(node, baseURL))
          [] node.kind = "List" -> oneBlock(convertList(node))
          [] node.kind = "Blockquote" -> oneBlock(convertBlockquote(node))
          [] node.kind = "CodeBlock" -> convertCodeBlock(node)
          [] node.kind = "FencedCodeBlock" -> convertFencedCodeBlock(node)
          [] node.kind = "ThematicBreak" -> oneBlock(convertThematicBreak)
          [] node.kind = "HTMLBlock" -> <<>>
          [] node.kind = "Table" -> convertTable(node)
          [] OTHER -> <<>>]

-----------------------------------------------------------------------------
(* Inputs: the documents and base URLs the conversions are run on *)

MaxItems == 2       \* items per list

MaxDepth == 2       \* levels of lists nested under a top-level list

MaxLines == 2       \* source lines per code block

MaxDocLen == 2      \* top-level nodes of a mixed document

Text(v) == Leaf("Text", v)

TextBlock(v) == Node("TextBlock", <<Text(v)>>)

DigitChar == <<"1", "2", "3", "4", "5", "6", "7", "8", "9">>

\* One list per level: level l has levels[l].n items, is ordered or not, and
\* its item number levels[l].k carries the list of level l + 1.  The text of
\* item j of level l is the two characters l, j.
RECURSIVE ListOf(_, _)
ListOf(levels, l) ==
    [Node("List",
        [j \in 1..levels[l].n |->
            Node("ListItem",
                <<TextBlock(<<DigitChar[l], DigitChar[j]>>)>> \o
                (IF j = levels[l].k /\ l < Len(levels)
                 THEN <<ListOf(levels, l + 1)>> ELSE <<>>))])
     EXCEPT !.ordered = levels[l].ordered]

LevelSpecs ==
    {ls \in [ordered : BOOLEAN, n : 1..MaxItems, k : 1..MaxItems] : ls.k \in {1, ls.n}}

ListNodes ==
    {ListOf(levels, 1) : levels \in UNION {[1..d -> LevelSpecs] : d \in 1..(MaxDepth + 1)}}

\* an item carrying two nested lists of different kinds, and a loose item
\* (its text in a Paragraph) with a nested list
TwoListsItem ==
    Node("ListItem",
        <<TextBlock(<<"P">>),
          [Node("List", <<Node("ListItem", <<TextBlock(<<"Q">>)>>),
                          Node("ListItem", <<TextBlock(<<"R">>)>>)>>) EXCEPT !.ordered = TRUE],
          Node("List", <<Node("ListItem", <<TextBlock(<<"S">>)>>)>>)>>)

LooseItem ==
    Node("ListItem",
        <<Node("Paragraph", <<Text(<<"T">>)>>),
          Node("List", <<Node("ListItem", <<Node("Paragraph", <<Text(<<"U">>)>>)>>)>>)>>)

SpecialListNodes ==
    {Node("List", <<>>),
     Node("List", <<TwoListsItem>>),
     [Node("List", <<LooseItem, TwoListsItem>>) EXCEPT !.ordered = TRUE]}

\* a source line of n characters "x", ended by a newline or not
Xs(n) == [i \in 1..n |-> "x"]

Line(n, nl) == IF nl THEN Append(Xs(n), "\n") ELSE Xs(n)

LineLens == {0, 1, maxChars - minDistanceFromLimit, maxChars - minDistanceFromLimit + 1,
             maxChars - 1, maxChars + 100}

\* A string is the sequence of its bytes (len and slicing count bytes).  The
\* two bytes of the UTF-8 encoding of U+00E9, a lead byte and a continuation
\* byte:
EAcute == <<"C3", "A9">>

\* lines with that character: away from every cut, and across the boundary
\* of the first candidate chunk
MultiByteLines ==
    {Xs(1) \o EAcute \o <<"\n">>,
     Xs(maxChars - 1) \o EAcute \o <<"\n">>}

Lines == ({Line(n, nl) : n \in LineLens, nl \in BOOLEAN} \ {<<>>}) \cup MultiByteLines

LineSeqs == UNION {[1..k -> Lines] : k \in 0..MaxLines}

Info_0 == <<"j", "s">>

Info_1 == <<"J", "S">>

Info_2 == <<"j", "s", " ", "t", "i", "t", "l", "e">>

Info_3 == <<"g", "o", "l", "a", "n", "g">>

Info_4 == <<" ", "P", "y", " ">>

Info_5 == <<"r", "u", "s", "t">>

Info_6 == <<"s", "h", " ", "-", "e">>

Info_7 == <<"y", "a", "m", "l">>

Infos == {Nil} \cup {Ptr(i) : i \in {Info_0, Info_1, Info_2, Info_3, Info_4, Info_5, Info_6, Info_7}}

CodeBlockNodes == {[Node("CodeBlock", <<>>) EXCEPT !.lines = ls] : ls \in LineSeqs}

FencedNodes ==
    {[Node("FencedCodeBlock", <<>>) EXCEPT !.lines = ls, !.info = Ptr(Info_0)] : ls \in LineSeqs}
    \cup {[Node("FencedCodeBlock", <<>>) EXCEPT !.lines = <<Line(1, TRUE)>>, !.info = i] :
            i \in Infos}

D_AbsHttps == <<"h", "t", "t", "p", "s", ":", "/", "/", "h", "/", "i", ".", "p", "n", "g">>

D_AbsHttp == <<"h", "t", "t", "p", ":", "/", "/", "h", "/", "i", ".", "p", "n", "g">>

D_AbsUpper == <<"H", "T", "T", "P", "S", ":", "/", "/", "h", "/", "i", ".", "p", "n", "g">>

D_AbsFtp == <<"f", "t", "p", ":", "/", "/", "h", "/", "i", ".", "p", "n", "g">>

D_AbsAttachment == <<"a", "t", "t", "a", "c", "h", "m", "e", "n", "t", ":", "i", ".", "p", "n", "g">>

D_AbsData == <<"d", "a", "t", "a", ":", "i">>

D_AbsMailto == <<"m", "a", "i", "l", "t", "o", ":", "i">>

D_Rel == <<"i", ".", "p", "n", "g">>

D_RelDir == <<"d", "/", "i", ".", "p", "n", "g">>

D_RelUp == <<".", ".", "/", "i", ".", "p", "n", "g">>

D_RelDot == <<".", "/", "i", ".", "p", "n", "g">>

D_RelRoot == <<"/", "i", ".", "p", "n", "g">>

AbsoluteDests == {D_AbsHttps, D_AbsHttp, D_AbsUpper, D_AbsFtp, D_AbsAttachment, D_AbsData, D_AbsMailto}

RelativeDests == {D_Rel, D_RelDir, D_RelUp, D_RelDot, D_RelRoot}

Dests == AbsoluteDests \cup RelativeDests \cup {<<>>}

B_Host == <<"h", "t", "t", "p", "s", ":", "/", "/", "h">>

B_HostSlash == <<"h", "t", "t", "p", "s", ":", "/", "/", "h", "/">>

B_Path == <<"h", "t", "t", "p", "s", ":", "/", "/", "h", "/", "p">>

B_PathSlash == <<"h", "t", "t", "p", "s", ":", "/", "/", "h", "/", "p", "/">>

B_NoScheme == <<"h", "/", "p">>

BaseURLs == {<<>>, B_Host, B_HostSlash, B_Path, B_PathSlash, B_NoScheme}

Image(dest, alt) == [Node("Image", alt) EXCEPT !.dest = dest]

ImageNodes ==
    {Node("Paragraph", <<Image(d, alt)>>) : d \in Dests, alt \in {<<>>, <<Text(<<"A">>)>>}}

HeadingNodes == {[Node("Heading", <<Text(<<"H">>)>>) EXCEPT !.level = l] : l \in 1..6}

Emphasis(level, children) == [Node("Emphasis", children) EXCEPT !.level = level]

Link(dest, children) == [Node("Link", children) EXCEPT !.dest = dest]

ParagraphNodes ==
    {Node("Paragraph", <<Text(<<"A">>)>>),
     Node("Paragraph", <<Text(<<"A">>), Emphasis(2, <<Text(<<"B">>)>>), Text(<<"C">>)>>),
     Node("Paragraph", <<Emphasis(1, <<Text(<<"A">>), Emphasis(2, <<Text(<<"B">>)>>)>>)>>),
     Node("Paragraph", <<Emphasis(2, <<Leaf("CodeSpan", <<"c">>)>>)>>),
     Node("Paragraph", <<Link(D_AbsHttps, <<Emphasis(1, <<Text(<<"A">>)>>), Text(<<"B">>)>>)>>),
     Node("Paragraph", <<Leaf("AutoLink", D_AbsHttp)>>),
     Node("Paragraph", <<Text(<<"A">>), Image(D_AbsHttps, <<>>)>>),
     Node("Paragraph", <<Image(D_AbsHttps, <<>>), Image(D_Rel, <<>>)>>),
     Node("Paragraph", <<Leaf("RawHTML", <<>>)>>),
     Node("Paragraph", <<Emphasis(1, <<Leaf("CodeSpan", <<"c">>), Emphasis(2, <<Text(<<"B">>)>>)>>)>>),
     Node("Paragraph", <<Link(D_AbsHttps, <<Emphasis(2, <<Leaf("CodeSpan", <<"c">>)>>)>>)>>),
     Node("Paragraph", <<Emphasis(2, <<Emphasis(1, <<Link(D_AbsHttp, <<Leaf("CodeSpan", <<"c">>)>>)>>),
                                       Text(<<"B">>)>>)>>),
     Node("Paragraph", <<>>)}

QuoteNodes ==
    {Node("Blockquote", <<Node("Paragraph", <<Text(<<"A">>), Text(<<"B">>)>>)>>),
     Node("Blockquote", <<>>)}

Cell(children) == Node("TableCell", children)

TableNodes ==
    {Node("Table", <<Node("TableHeader", <<Cell(<<Text(<<"A">>)>>), Cell(<<Text(<<"B">>)>>)>>),
                     Node("TableRow", <<Cell(<<Text(<<"C">>)>>), Cell(<<>>)>>)>>),
     Node("Table", <<Node("TableHeader", <<Cell(<<Text(<<"A">>)>>)>>),
                     Node("TableRow", <<Cell(<<Text(<<"C">>)>>), Cell(<<Text(<<"D">>)>>)>>),
                     Node("TableRow", <<>>)>>),
     Node("Table", <<Node("TableRow", <<Cell(<<Emphasis(2, <<Text(<<"C">>)>>)>>)>>)>>),
     Node("Table", <<>>)}

OtherNodes ==
    {Node("ThematicBreak", <<>>), Node("HTMLBlock", <<>>), Node("TextBlock", <<Text(<<"A">>)>>)}

\* the nodes mixed documents are made of: one or two of every kind
MixNodes ==
    {[Node("Heading", <<Text(<<"H">>)>>) EXCEPT !.level = 1],
     Node("Paragraph", <<Text(<<"A">>)>>),
     Node("Paragraph", <<Leaf("RawHTML", <<>>)>>),
     Node("Paragraph", <<Image(D_Rel, <<>>)>>),
     Node("Paragraph", <<Image(D_AbsFtp, <<>>)>>),
     ListOf(<<[ordered |-> FALSE, n |-> 2, k |-> 2]>>, 1),
     [Node("FencedCodeBlock", <<>>) EXCEPT !.lines = <<Line(1, TRUE)>>],
     Node("ThematicBreak", <<>>),
     Node("HTMLBlock", <<>>),
     Node("List", <<TwoListsItem>>),
     Node("Table", <<Node("TableHeader", <<Cell(<<Text(<<"A">>)>>)>>),
                     Node("TableRow", <<Cell(<<>>)>>)>>)}

SingleNodes ==
    ListNodes \cup SpecialListNodes \cup CodeBlockNodes \cup FencedNodes \cup ImageNodes
        \cup HeadingNodes \cup ParagraphNodes \cup QuoteNodes \cup TableNodes \cup OtherNodes

Docs ==
    {<<n>> : n \in SingleNodes} \cup UNION {[1..k -> MixNodes] : k \in 0..MaxDocLen}

\* whether convertImage can be reached from the node: a paragraph whose sole
\* child is an image
hasImage(node) == node.kind = "Paragraph" /\ Len(node.children) = 1
                    /\ node.children[1].kind = "Image"

\* imageBaseURL is read by convertImage alone: documents without a
\* block-level image are converted without a base URL only
BaseURLsOf(d) ==
    IF \E i \in 1..Len(d) : hasImage(d[i]) THEN BaseURLs ELSE {<<>>}

\* Run, the client and the server before anything has happened: the values
\* the variables of RunSpec keep while Convert runs
syncUnused ==
    /\ mode = "none" /\ dryRun = FALSE /\ runBlocks = <<>> /\ rpc = "idle"
    /\ runErr = <<>> /\ output = <<>>
    /\ cursor = <<>> /\ allBlocks = <<>> /\ delIdx = 1 /\ chunkStart = 0
    /\ mpc = "idle" /\ req = <<>> /\ attempt = 0 /\ backoff = 1
    /\ lastErr = <<>> /\ resp = <<>> /\ waitDur = <<0, 0, 0, 0>> /\ wake = "none"
    /\ mret = <<>> /\ attempts = 0 /\ lastStatus = 0
    /\ cancelled = FALSE
    /\ net = <<>> /\ remote = <<>> /\ pages = 0 /\ faults = 0
    /\ batches = <<>>

-----------------------------------------------------------------------------
(* Convert *)

Init ==
    /\ doc \in Docs
    /\ imageBaseURL \in BaseURLsOf(doc)
    /\ child = 1
    /\ nodeBlocks = <<>>
    /\ blocks = <<>>
    /\ err = FALSE
    /\ pc = "loop"
    /\ syncUnused

\* one iteration of Convert's loop over the document's children
ConvertChild ==
    /\ pc = "loop"
    /\ child <= Len(doc)
    /\ LET r == convertNode(doc[child], imageBaseURL)
       IN  IF r.err
           THEN /\ blocks' = <<>>
                /\ nodeBlocks' = <<>>
                /\ err' = TRUE
                /\ pc' = "done"
                /\ child' = child
           ELSE /\ nodeBlocks' = r.blocks
                /\ blocks' = blocks \o r.blocks
                /\ child' = child + 1
                /\ UNCHANGED <<err, pc>>
    /\ UNCHANGED <<doc, imageBaseURL>>
    /\ UNCHANGED syncVars

\* `return blocks, nil` once the loop has run out of children
ConvertReturn ==
    /\ pc = "loop"
    /\ child > Len(doc)
    /\ pc' = "done"
    /\ UNCHANGED <<doc, imageBaseURL, child, nodeBlocks, blocks, err>>
    /\ UNCHANGED syncVars

Next == ConvertChild \/ ConvertReturn

Spec == Init /\ [][Next]_vars

-----------------------------------------------------------------------------
(* Notion client: constants, requests, errors (internal/notion/client.go) *)

MaxRetries == 3

BaseBackoff == 1    \* seconds

MaxBackoff == 16    \* seconds

\* AppendBlockChildren: chunkSize := 25
chunkSize == 25

\* nextBackoff: the next backoff duration
nextBackoff(current) ==
    IF current * 2 > MaxBackoff THEN MaxBackoff ELSE current * 2

DecimalDigits == <<"0", "1", "2", "3", "4", "5", "6", "7", "8", "9">>

DigitValue(c) == (CHOOSE k \in 1..10 : DecimalDigits[k] = c) - 1

\* Go's int and time.Duration are 64 bits wide: a value is held as its
\* two's complement in four 16-bit limbs, the most significant first
Limb == 65536

int64Zero == <<0, 0, 0, 0>>

RECURSIVE mulAddFrom(_, _, _, _)
\* x * k + c on the limbs x[1..i] with the carry c into limb i: the limbs of
\* the result and the carry out of the most significant one (k < 2^15)
mulAddFrom(x, k, c, i) ==
    IF i = 0 THEN [value |-> x, carry |-> c]
    ELSE CHOOSE r \in {mulAddFrom([x EXCEPT ![i] = p % Limb], k, p \div Limb,
                                   i - 1) : p \in {x[i] * k + c}} : TRUE

mulAdd(x, k, c) == CHOOSE r \in {mulAddFrom(v, k, c, Len(v)) : v \in {x}} : TRUE

isNegative(x) == x[1] >= Limb \div 2

isPositive(x) == ~ isNegative(x) /\ \E i \in 1..Len(x) : x[i] # 0

\* -x
negate(x) == mulAdd([i \in 1..Len(x) |-> Limb - 1 - x[i]], 1, 1).value

\* the int64 of a small number
int64(n) ==
    IF n >= 0 THEN <<0, 0, n \div Limb, n % Limb>>
    ELSE negate(<<0, 0, (0 - n) \div Limb, (0 - n) % Limb>>)

\* d * time.Second (10^9 ns), wrapping as Go's multiplication does
timesSecond(d) ==
    mulAdd(mulAdd(mulAdd(d, 1000, 0).value, 1000, 0).value, 1000, 0).value

\* n * time.Second for a number of seconds n
Seconds(n) == timesSecond(int64(n))

\* the value acc of some digits, with one more digit d
withDigit(acc, d) ==
    CHOOSE r \in {[value |-> m.value, over |-> acc.over \/ m.carry > 0] :
                    m \in {mulAdd(acc.value, 10, d)}} : TRUE

RECURSIVE digitsValue(_, _, _)
\* the number written by the digits s[k..], after the value acc of s[..k-1];
\* over tells that it does not fit 64 bits
digitsValue(s, k, acc) ==
    IF k > Len(s) THEN acc
    ELSE CHOOSE r \in {digitsValue(s, k + 1, a) :
                        a \in {withDigit(acc, DigitValue(s[k]))}} : TRUE

\* the int of a sign and a magnitude, or the range error
intOf(minus, magnitude) ==
    IF \/ magnitude.over
       \/ isNegative(magnitude.value)
            /\ ~ (minus /\ magnitude.value = <<Limb \div 2, 0, 0, 0>>)
    THEN [ok |-> FALSE, value |-> int64Zero]
    ELSE [ok |-> TRUE,
          value |-> IF minus THEN negate(magnitude.value) ELSE magnitude.value]

\* strconv.Atoi: an optional sign followed by one or more decimal digits,
\* whose value fits an int (a range error otherwise)
Atoi(s) ==
    LET signed == s # <<>> /\ s[1] \in {"+", "-"}
        digits == IF signed THEN Tail(s) ELSE s
    IN  IF digits = <<>> \/ \E k \in 1..Len(digits) : digits[k] \notin Digits
        THEN [ok |-> FALSE, value |-> int64Zero]
        ELSE CHOOSE r \in {intOf(signed /\ s[1] = "-", m) :
                            m \in {digitsValue(digits, 1, [value |-> int64Zero,
                                                           over |-> FALSE])}} : TRUE

\* getRetryAfter: the delay of the Retry-After header ("" when absent)
getRetryAfter(retryAfter) ==
    IF retryAfter = <<>> THEN Seconds(BaseBackoff)
    ELSE CHOOSE d \in {IF seconds.ok THEN timesSecond(seconds.value)
                       ELSE Seconds(BaseBackoff) :
                        seconds \in {Atoi(retryAfter)}} : TRUE

\* the arguments of one makeRequest call: method, path, body and whether a
\* result is to be decoded.  children is the body's block list, block the
\* block a DeleteBlock archives, cursor the start_cursor of a list request.
Request(method, path) ==
    [method |-> method, path |-> path, children |-> <<>>, block |-> 0,
     cursor |-> Nil, result |-> FALSE]

\* an error value: what failed and the HTTP status it carries (0: none)
Error(kind, status) == [kind |-> kind, status |-> status]

\* handleErrorResponse
handleErrorResponse(statusCode) == Error("api", statusCode)

\* a loop guard that lets one more attempt through
mayAttempt_oneMore(n) == n <= MaxRetries + 1

\* the guard of makeRequest's loop
mayAttempt(n) == n <= MaxRetries

\* classify that retries every status from 400 on
classify_retriesClientErrors(statusCode) ==
    IF statusCode = 429 THEN "rateLimited"
    ELSE IF statusCode >= 400 THEN "retry"
    ELSE "success"

\* what the statements after io.ReadAll do with a response of the status:
\* wait and retry (429), back off and retry (5xx), fail (4xx), succeed
classify(statusCode) ==
    IF statusCode = 429 THEN "rateLimited"
    ELSE IF statusCode >= 500 THEN "retry"
    ELSE IF statusCode >= 400 THEN "fatal"
    ELSE "success"

\* a wait that goes on when the context is done
afterWait_ignoresCancel(ready) == "proceed"

\* the select of the two waits: which case runs once one is ready
afterWait(ready) == IF ready = "cancel" THEN "return" ELSE "proceed"

\* the cases of the select that are ready when it is entered: a closed
\* ctx.Done(), and the timer when its duration is not positive
readyAtEntry(done, duration) ==
    (IF done THEN {"cancel"} ELSE {}) \cup (IF ~ isPositive(duration) THEN {"timer"} ELSE {})

\* chunkEnd that ends every chunk one block early
chunkEnd_oneLess(i, len) ==
    IF i + chunkSize - 1 > len THEN len ELSE i + chunkSize - 1

\* blocks[i:end] of AppendBlockChildren
chunkEnd(i, len) == IF i + chunkSize > len THEN len ELSE i + chunkSize

chunkOf(bs, i) == SubSeq(bs, i + 1, chunkEnd(i, Len(bs)))

-----------------------------------------------------------------------------
(* The Notion server and the network: the answers to one HTTP attempt *)

MaxBlocks == 51     \* blocks of the sequence to upload

MaxExisting == 2    \* children of the target page before the run

MaxFaults == 4      \* answers other than a valid 2xx in one run

\* the outcome of httpClient.Do and io.ReadAll: kind "http" is a response
\* read in full, "doErr" an error of Do (the request did not reach the
\* server), "readErr" an error of io.ReadAll on the body of a 200 response.
\* applied tells whether the server carried the request out.
Answer ==
    [kind |-> "http", status |-> 200, applied |-> FALSE, retryAfter |-> <<>>,
     body |-> "json", results |-> <<>>, hasMore |-> FALSE, nextCursor |-> Nil]

isWrite(r) == r.method # "GET"

\* Retry-After: absent, 0, 3, the least number of seconds that does not fit
\* a time.Duration, and a value that is no integer
RetryAfterHeaders ==
    {<<>>, <<"0">>, <<"3">>,
     <<"9", "2", "2", "3", "3", "7", "2", "0", "3", "7">>, <<"s">>}

\* the error statuses the server answers with, 429 apart
FailureStatuses == {400, 404, 500}

\* Do's error for a context that is done
Canceled == [Answer EXCEPT !.kind = "doErr", !.status = 0]

\* the answers that make an attempt fail, or (a 2xx with an undecodable
\* body) the call
FaultyAnswers(r) ==
    {[Answer EXCEPT !.kind = "doErr", !.status = 0],
     [Answer EXCEPT !.kind = "readErr", !.applied = isWrite(r)]}
    \cup {[Answer EXCEPT !.status = st, !.body = "error"] : st \in FailureStatuses}
    \cup {[Answer EXCEPT !.status = 429, !.body = "error", !.retryAfter = h] :
            h \in RetryAfterHeaders}
    \cup (IF r.result
          THEN {[Answer EXCEPT !.body = "garbage", !.applied = isWrite(r)]}
          ELSE {})

\* the valid 2xx answers: a list request gets the next k children after its
\* cursor, with has_more and next_cursor when children remain
GoodAnswers(r, children) ==
    IF r.path = "/blocks/children" /\ r.method = "GET"
    THEN LET from == IF r.cursor = Nil THEN 0 ELSE Deref(r.cursor)
             left == Len(children) - from
         IN  IF left <= 0 THEN {Answer}
             ELSE {[Answer EXCEPT !.results = SubSeq(children, from + 1, from + k),
                                  !.hasMore = (k < left),
                                  !.nextCursor = IF k < left THEN Ptr(from + k) ELSE Nil] :
                    k \in 1..left}
    ELSE {[Answer EXCEPT !.applied = isWrite(r)]}

\* the children of the target page once the server has carried r out
applyRequest(r, children) ==
    CASE r.method = "PATCH" /\ r.path = "/blocks/children" -> children \o r.children
      [] r.method = "PATCH" /\ r.path = "/blocks" ->
            SelectSeq(children, LAMBDA b : b # r.block)
      [] r.method = "POST" -> r.children
      [] OTHER -> children

-----------------------------------------------------------------------------
(* makeRequest *)

Waits == {"backoffWait", "rateWait"}

\* a call of makeRequest: the state at the head of its loop
callRequest(r) ==
    /\ mpc' = "top"
    /\ req' = Ptr(r)
    /\ attempt' = 0
    /\ backoff' = BaseBackoff
    /\ lastErr' = Nil
    /\ resp' = Nil
    /\ waitDur' = int64Zero
    /\ wake' = "none"
    /\ mret' = Nil
    /\ attempts' = 0
    /\ lastStatus' = 0

\* `select { case <-ctx.Done(): ...; case <-time.After(d): }` is entered:
\* one of the cases already ready is chosen, or the goroutine is suspended
enterSelect(at, d) ==
    /\ mpc' = at
    /\ \E after \in {d} :
          /\ waitDur' = after
          /\ IF readyAtEntry(cancelled, after) = {} THEN wake' = "none"
             ELSE \E w \in readyAtEntry(cancelled, after) : wake' = w

\* the head of the loop: the guard, and for a retry the backoff wait
LoopTop ==
    /\ mpc = "top"
    /\ IF ~ mayAttempt(attempt)
       THEN /\ mret' = Ptr(Error("exhausted",
                               IF lastErr = Nil THEN 0 ELSE Deref(lastErr).status))
            /\ mpc' = "ret"
            /\ UNCHANGED <<waitDur, wake>>
       ELSE IF attempt > 0
       THEN /\ enterSelect("backoffWait", Seconds(backoff))
            /\ UNCHANGED mret
       ELSE /\ mpc' = "do"
            /\ UNCHANGED <<waitDur, wake, mret>>
    /\ UNCHANGED <<req, attempt, backoff, lastErr, resp, attempts, lastStatus>>
    /\ UNCHANGED <<convertVars, runVars, loopVars, cancelled, serverVars, batches>>

\* the timer of time.After fires while the goroutine is suspended
TimerFires ==
    /\ mpc \in Waits
    /\ wake = "none"
    /\ wake' = "timer"
    /\ UNCHANGED <<mpc, req, attempt, backoff, lastErr, resp, waitDur, mret, attempts,
                   lastStatus>>
    /\ UNCHANGED <<convertVars, runVars, loopVars, cancelled, serverVars, batches>>

\* the context's deadline passes (main: context.WithTimeout): ctx.Done() is
\* closed, which wakes a goroutine suspended in a select
Cancel ==
    /\ ~ cancelled
    /\ rpc # "done"
    /\ cancelled' = TRUE
    /\ wake' = IF mpc \in Waits /\ wake = "none" THEN "cancel" ELSE wake
    /\ UNCHANGED <<mpc, req, attempt, backoff, lastErr, resp, waitDur, mret, attempts,
                   lastStatus>>
    /\ UNCHANGED <<convertVars, runVars, loopVars, serverVars, batches>>

\* the select returns: `return ctx.Err()`, or on with the attempt (backoff
\* wait) or with `continue` (rate-limit wait)
Resume ==
    /\ mpc \in Waits
    /\ wake # "none"
    /\ wake' = "none"
    /\ waitDur' = int64Zero
    /\ IF afterWait(wake) = "return"
       THEN /\ mret' = Ptr(Error("ctx", 0))
            /\ mpc' = "ret"
            /\ UNCHANGED <<attempt, resp>>
       ELSE IF mpc = "backoffWait"
       THEN /\ mpc' = "do"
            /\ UNCHANGED <<attempt, mret, resp>>
       ELSE /\ mpc' = "top"
            /\ attempt' = attempt + 1
            /\ resp' = Nil
            /\ UNCHANGED mret
    /\ UNCHANGED <<req, backoff, lastErr, attempts, lastStatus>>
    /\ UNCHANGED <<convertVars, runVars, loopVars, cancelled, serverVars, batches>>

\* httpClient.Do is called: the request leaves, unless the context is done
Do ==
    /\ mpc = "do"
    /\ attempts' = attempts + 1
    /\ IF cancelled
       THEN /\ resp' = Ptr(Canceled)
            /\ mpc' = "resp"
            /\ UNCHANGED net
       ELSE /\ net' = Append(net, Deref(req))
            /\ mpc' = "inflight"
            /\ UNCHANGED resp
    /\ UNCHANGED <<req, attempt, backoff, lastErr, waitDur, wake, mret, lastStatus>>
    /\ UNCHANGED <<convertVars, runVars, loopVars, cancelled, remote, pages, faults, batches>>

\* the answers Do and io.ReadAll can come back with: an error of Do once the
\* context is done, else whatever the server and the network do
possibleAnswers(r) ==
    IF cancelled
    THEN {a \in FaultyAnswers(r) : a.kind = "doErr"}
    ELSE GoodAnswers(r, remote) \cup (IF faults < MaxFaults THEN FaultyAnswers(r) ELSE {})

\* the server carries the request out or not, and Do returns
Respond ==
    /\ mpc = "inflight"
    /\ net # <<>>
    /\ \E a \in possibleAnswers(Head(net)) :
          /\ resp' = Ptr(a)
          /\ remote' = IF a.applied THEN applyRequest(Head(net), remote) ELSE remote
          /\ pages' = IF a.applied /\ Head(net).method = "POST" THEN pages + 1 ELSE pages
          /\ faults' = IF cancelled \/ a \in GoodAnswers(Head(net), remote)
                       THEN faults ELSE faults + 1
    /\ net' = Tail(net)
    /\ mpc' = "resp"
    /\ UNCHANGED <<req, attempt, backoff, lastErr, waitDur, wake, mret, attempts,
                   lastStatus>>
    /\ UNCHANGED <<convertVars, runVars, loopVars, cancelled, batches>>

\* a failed attempt: `lastErr = ...; backoff = c.nextBackoff(backoff); continue`
\* (resp is local to the iteration)
failAttempt(e) ==
    /\ lastErr' = Ptr(e)
    /\ backoff' = nextBackoff(backoff)
    /\ attempt' = attempt + 1
    /\ mpc' = "top"
    /\ resp' = Nil
    /\ UNCHANGED <<waitDur, wake, mret>>

\* makeRequest returns e (Nil: nil)
returnWith(e) ==
    /\ mret' = e
    /\ mpc' = "ret"
    /\ UNCHANGED <<attempt, backoff, lastErr, waitDur, wake, resp>>

\* the statements after httpClient.Do, up to `continue` or `return`
Handle ==
    /\ mpc = "resp"
    /\ LET a == Deref(resp)
       IN  IF a.kind = "doErr" THEN failAttempt(Error("transport", 0))
           ELSE IF a.kind = "readErr" THEN failAttempt(Error("read", 0))
           ELSE IF classify(a.status) = "rateLimited"
           THEN /\ enterSelect("rateWait", getRetryAfter(a.retryAfter))
                /\ UNCHANGED <<attempt, backoff, lastErr, mret, resp>>
           ELSE IF classify(a.status) = "retry"
           THEN failAttempt(handleErrorResponse(a.status))
           ELSE IF classify(a.status) = "fatal"
           THEN returnWith(Ptr(handleErrorResponse(a.status)))
           ELSE IF Deref(req).result /\ a.body = "garbage"
           THEN returnWith(Ptr(Error("unmarshal", a.status)))
           ELSE returnWith(Nil)
    /\ lastStatus' = IF Deref(resp).kind = "http" THEN Deref(resp).status ELSE 0
    /\ UNCHANGED <<req, attempts>>
    /\ UNCHANGED <<convertVars, runVars, loopVars, cancelled, serverVars, batches>>

-----------------------------------------------------------------------------
(* Run and the client methods it calls *)

\* the block sequences uploaded: around the chunk boundaries
BlockCounts ==
    {n \in {0, 1, chunkSize, chunkSize + 1, 2 * chunkSize + 1} : n <= MaxBlocks}

\* the new blocks are 1, 2, ...; the children the page has before are -1, -2, ...
NewBlocks(n) == [k \in 1..n |-> k]

OldBlocks(n) == [k \in 1..n |-> 0 - k]

Modes == {"create", "replace", "both", "append"}

\* no request is being made and none has been
requestIdle ==
    /\ mpc = "idle" /\ req = Nil /\ attempt = 0 /\ backoff = BaseBackoff
    /\ lastErr = Nil /\ resp = Nil /\ waitDur = int64Zero /\ wake = "none"
    /\ mret = Nil /\ attempts = 0 /\ lastStatus = 0

\* replacePage uploads through the AppendBlockChildren that appendToPage
\* calls: the uploads of a full chunk and of three chunks are run in append
\* mode
BlockCountsOf(m) ==
    {n \in BlockCounts : m = "replace" => n \in {0, 1, chunkSize + 1}}

RunInit ==
    /\ mode \in Modes
    /\ dryRun \in BOOLEAN
    /\ runBlocks \in {NewBlocks(n) : n \in BlockCountsOf(mode)}
    /\ remote \in {OldBlocks(n) : n \in IF mode = "create" /\ ~ dryRun THEN {0}
                                         ELSE 0..MaxExisting}
    /\ rpc = "start"
    /\ runErr = Nil /\ output = Nil
    /\ cursor = Nil /\ allBlocks = <<>> /\ delIdx = 1 /\ chunkStart = 0
    /\ requestIdle
    /\ cancelled = FALSE
    /\ net = <<>> /\ pages = 0 /\ faults = 0
    /\ batches = <<>>
    /\ doc = <<>> /\ imageBaseURL = <<>> /\ child = 1 /\ nodeBlocks = <<>>
    /\ blocks = <<>> /\ err = FALSE /\ pc = "run"

\* printDryRun: the JSON of the blocks is written, unless os.WriteFile fails
printDryRun ==
    /\ rpc' = "done"
    /\ \/ output' = Ptr(runBlocks) /\ UNCHANGED runErr
       \/ runErr' = Ptr(Error("write", 0)) /\ UNCHANGED output

\* the operation Run goes on with when the configuration is valid and there
\* are blocks: the upload --create asks for, also in a dry run
operation_createBeforeDryRun ==
    IF mode \in {"create", "both"} THEN "create"
    ELSE IF dryRun THEN "dryrun"
    ELSE IF mode = "replace" THEN "replace"
    ELSE "append"

\* the operation Run goes on with when the configuration is valid and there
\* are blocks: DryRun is looked at before Create and Replace
operation ==
    IF dryRun THEN "dryrun"
    ELSE IF mode \in {"create", "both"} THEN "create"
    ELSE IF mode = "replace" THEN "replace"
    ELSE "append"

\* Run without the return for a conversion that yields no block
RunStart_uploadsNothing ==
    /\ rpc = "start"
    /\ IF ~ dryRun /\ mode = "both"
       THEN rpc' = "done" /\ runErr' = Ptr(Error("config", 0)) /\ UNCHANGED output
       ELSE IF operation = "dryrun" THEN printDryRun
       ELSE IF operation = "create" THEN rpc' = "create" /\ UNCHANGED <<runErr, output>>
       ELSE IF operation = "replace" THEN rpc' = "list" /\ UNCHANGED <<runErr, output>>
       ELSE rpc' = "append" /\ UNCHANGED <<runErr, output>>
    /\ UNCHANGED <<mode, dryRun, runBlocks>>
    /\ UNCHANGED <<convertVars, loopVars, requestVars, cancelled, serverVars, batches>>

\* Run up to the operation: validateConfig (which a dry run passes), Convert,
\* nothing to upload, the dry run, or one of createPage, replacePage,
\* appendToPage
RunStart ==
    /\ rpc = "start"
    /\ IF ~ dryRun /\ mode = "both"
       THEN rpc' = "done" /\ runErr' = Ptr(Error("config", 0)) /\ UNCHANGED output
       ELSE IF Len(runBlocks) = 0 THEN rpc' = "done" /\ UNCHANGED <<runErr, output>>
       ELSE IF operation = "dryrun" THEN printDryRun
       ELSE IF operation = "create" THEN rpc' = "create" /\ UNCHANGED <<runErr, output>>
       ELSE IF operation = "replace" THEN rpc' = "list" /\ UNCHANGED <<runErr, output>>
       ELSE rpc' = "append" /\ UNCHANGED <<runErr, output>>
    /\ UNCHANGED <<mode, dryRun, runBlocks>>
    /\ UNCHANGED <<convertVars, loopVars, requestVars, cancelled, serverVars, batches>>

\* makeRequest has returned and its caller has read the result: its locals
\* are gone
requestOver ==
    /\ mpc' = "idle" /\ req' = Nil /\ attempt' = 0 /\ backoff' = BaseBackoff
    /\ lastErr' = Nil /\ resp' = Nil /\ waitDur' = int64Zero /\ wake' = "none"
    /\ mret' = Nil /\ attempts' = 0 /\ lastStatus' = 0

\* a client method returns to Run, which returns its error
finish(e) ==
    /\ rpc' = "done"
    /\ runErr' = e
    /\ requestOver
    /\ UNCHANGED <<mode, dryRun, runBlocks, output>>

\* CreatePage: one request carrying the page and its children
CreateCall ==
    /\ rpc = "create" /\ mpc = "idle"
    /\ callRequest([Request("POST", "/pages") EXCEPT !.children = runBlocks,
                                                      !.result = TRUE])
    /\ UNCHANGED <<convertVars, runVars, loopVars, cancelled, serverVars, batches>>

CreateReturn ==
    /\ rpc = "create" /\ mpc = "ret"
    /\ finish(mret)
    /\ UNCHANGED <<convertVars, loopVars, cancelled, serverVars, batches>>

\* ListBlockChildren: one iteration of the loop, up to makeRequest
ListCall ==
    /\ rpc = "list" /\ mpc = "idle"
    /\ callRequest([Request("GET", "/blocks/children") EXCEPT !.cursor = cursor,
                                                               !.result = TRUE])
    /\ UNCHANGED <<convertVars, runVars, loopVars, cancelled, serverVars, batches>>

\* a listing that keeps only the page read last
ListReturn_keepsLastPage ==
    /\ rpc = "list" /\ mpc = "ret"
    /\ IF mret # Nil
       THEN /\ finish(mret)
            /\ allBlocks' = <<>> /\ cursor' = Nil
            /\ UNCHANGED <<delIdx, chunkStart>>
       ELSE /\ allBlocks' = Deref(resp).results
            /\ IF ~ Deref(resp).hasMore
               THEN rpc' = "delete" /\ delIdx' = 1 /\ UNCHANGED cursor
               ELSE rpc' = "list" /\ cursor' = Deref(resp).nextCursor /\ UNCHANGED delIdx
            /\ requestOver
            /\ UNCHANGED <<mode, dryRun, runBlocks, runErr, output, chunkStart>>
    /\ UNCHANGED <<convertVars, cancelled, serverVars, batches>>

\* ... and after it: the error (`return nil, err`), the last page
\* (replacePage goes on to delete), or the next cursor
ListReturn ==
    /\ rpc = "list" /\ mpc = "ret"
    /\ IF mret # Nil
       THEN /\ finish(mret)
            /\ allBlocks' = <<>> /\ cursor' = Nil
            /\ UNCHANGED <<delIdx, chunkStart>>
       ELSE /\ allBlocks' = allBlocks \o Deref(resp).results
            /\ IF ~ Deref(resp).hasMore
               THEN rpc' = "delete" /\ delIdx' = 1 /\ UNCHANGED cursor
               ELSE rpc' = "list" /\ cursor' = Deref(resp).nextCursor /\ UNCHANGED delIdx
            /\ requestOver
            /\ UNCHANGED <<mode, dryRun, runBlocks, runErr, output, chunkStart>>
    /\ UNCHANGED <<convertVars, cancelled, serverVars, batches>>

\* replacePage: DeleteBlock for the next existing block
DeleteCall ==
    /\ rpc = "delete" /\ mpc = "idle"
    /\ delIdx <= Len(allBlocks)
    /\ callRequest([Request("PATCH", "/blocks") EXCEPT !.block = allBlocks[delIdx]])
    /\ UNCHANGED <<convertVars, runVars, loopVars, cancelled, serverVars, batches>>

\* a deletion loop that returns the first error of DeleteBlock
DeleteReturn_abortsOnError ==
    /\ rpc = "delete" /\ mpc = "ret"
    /\ IF mret # Nil
       THEN /\ finish(mret)
            /\ UNCHANGED loopVars
       ELSE /\ delIdx' = delIdx + 1
            /\ requestOver
            /\ UNCHANGED <<runVars, cursor, allBlocks, chunkStart>>
    /\ UNCHANGED <<convertVars, cancelled, serverVars, batches>>

\* ... whose error is reported when verbose and otherwise dropped
DeleteReturn ==
    /\ rpc = "delete" /\ mpc = "ret"
    /\ delIdx' = delIdx + 1
    /\ requestOver
    /\ UNCHANGED <<cursor, allBlocks, chunkStart>>
    /\ UNCHANGED <<convertVars, runVars, cancelled, serverVars, batches>>

\* replacePage: the deletions are over, AppendBlockChildren is called
DeleteDone ==
    /\ rpc = "delete" /\ mpc = "idle"
    /\ delIdx > Len(allBlocks)
    /\ rpc' = "append"
    /\ chunkStart' = 0
    /\ UNCHANGED <<mode, dryRun, runBlocks, runErr, output, cursor, allBlocks, delIdx>>
    /\ UNCHANGED <<convertVars, requestVars, cancelled, serverVars, batches>>

\* AppendBlockChildren: one iteration of the loop, up to makeRequest
AppendCall ==
    /\ rpc = "append" /\ mpc = "idle"
    /\ chunkStart < Len(runBlocks)
    /\ callRequest([Request("PATCH", "/blocks/children") EXCEPT
                        !.children = chunkOf(runBlocks, chunkStart)])
    /\ batches' = Append(batches, chunkOf(runBlocks, chunkStart))
    /\ UNCHANGED <<convertVars, runVars, loopVars, cancelled, serverVars>>

\* ... and after it: the error, or `i += chunkSize`
AppendReturn ==
    /\ rpc = "append" /\ mpc = "ret"
    /\ IF mret # Nil
       THEN /\ finish(mret)
            /\ UNCHANGED loopVars
       ELSE /\ chunkStart' = chunkStart + chunkSize
            /\ requestOver
            /\ UNCHANGED <<runVars, cursor, allBlocks, delIdx>>
    /\ UNCHANGED <<convertVars, cancelled, serverVars, batches>>

\* AppendBlockChildren: `return nil` after the loop
AppendDone ==
    /\ rpc = "append" /\ mpc = "idle"
    /\ chunkStart >= Len(runBlocks)
    /\ rpc' = "done"
    /\ UNCHANGED <<mode, dryRun, runBlocks, runErr, output>>
    /\ UNCHANGED <<convertVars, loopVars, requestVars, cancelled, serverVars, batches>>

\* the steps of the program
RunStep ==
    \/ RunStart
    \/ CreateCall \/ CreateReturn
    \/ ListCall \/ ListReturn
    \/ DeleteCall \/ DeleteReturn \/ DeleteDone
    \/ AppendCall \/ AppendReturn \/ AppendDone
    \/ LoopTop \/ Resume \/ Do \/ Handle

RunNext == RunStep \/ TimerFires \/ Respond \/ Cancel

RunSpec == RunInit /\ [][RunNext]_vars

\* The goroutine runs whenever it can, timers fire, and httpClient.Do returns
\* (http.Client.Timeout is set); the context need never be cancelled.
RunFairSpec ==
    RunSpec /\ WF_vars(RunStep) /\ WF_vars(TimerFires) /\ WF_vars(Respond)

-----------------------------------------------------------------------------
(* Properties.  `last` is the node the latest iteration of Convert's loop   *)
(* converted; nodeBlocks holds the blocks convertNode returned for it.      *)

converted == child > 1

last == doc[child - 1]

isCode(node) == node.kind \in {"CodeBlock", "FencedCodeBlock"}

contentOf(block) == Deref(block.Code).RichText[1].Content

RECURSIVE concatContents(_)
concatContents(bs) ==
    IF bs = <<>> THEN <<>> ELSE contentOf(Head(bs)) \o concatContents(Tail(bs))

\* C1: for code content longer than 2000 characters, the contents of the
\* code blocks produced, concatenated in output order, are the content itself.
C1_SplitIsLossless ==
    (converted /\ isCode(last) /\ Len(concatLines(last.lines)) > maxChars) =>
        /\ \A i \in 1..Len(nodeBlocks) : nodeBlocks[i].Type = "code"
        /\ concatContents(nodeBlocks) = concatLines(last.lines)

\* a content longer than 2000 was split in three, the first cut moved back to
\* a newline
C1_Witness ==
    /\ converted /\ isCode(last)
    /\ Len(concatLines(last.lines)) > maxChars
    /\ Len(nodeBlocks) = 3
    /\ Len(contentOf(nodeBlocks[1])) < maxChars
    /\ concatContents(nodeBlocks) = concatLines(last.lines)

listItemType(ordered) ==
    IF ordered THEN "numbered_list_item" ELSE "bulleted_list_item"

\* the variant struct of a list-item block
itemOf(block) ==
    IF block.Type = "numbered_list_item" THEN Deref(block.NumberedListItem)
    ELSE Deref(block.BulletedListItem)

\* the first text of an item: the Text of its TextBlock or Paragraph
itemLabel(item) == item.children[1].children[1].value

\* C2: a top-level List with n >= 1 ListItem children yields n list-item
\* blocks, one per item in source order, all of the type the List's ordered
\* flag selects.
C2_ListEmitsEveryItem ==
    (converted /\ last.kind = "List" /\ Len(last.children) >= 1) =>
        /\ Len(nodeBlocks) = Len(last.children)
        /\ \A i \in 1..Len(nodeBlocks) :
              /\ nodeBlocks[i].Type = listItemType(last.ordered)
              /\ itemOf(nodeBlocks[i]).RichText[1].Content = itemLabel(last.children[i])

RECURSIVE nestedPairsFrom(_, _)
\* the items of the nested lists among an item's children, in source order,
\* each with its own list's ordered flag
nestedPairsFrom(item, i) ==
    IF i > Len(item.children) THEN <<>>
    ELSE (IF item.children[i].kind = "List"
          THEN [j \in 1..Len(item.children[i].children) |->
                    [item |-> item.children[i].children[j],
                     ordered |-> item.children[i].ordered]]
          ELSE <<>>) \o nestedPairsFrom(item, i + 1)

nestedPairs(item) == nestedPairsFrom(item, 1)

\* the children of an item that are not lists
nonListChildren(item) == SelectSeq(item.children, LAMBDA c : c.kind # "List")

RECURSIVE ownTextOnly(_, _)
\* the rich text of the block of `item`, and of every block below it, is
\* the inline formatting of the item's non-list children
ownTextOnly(item, block) ==
    /\ itemOf(block).RichText = convertInlineFrom(nonListChildren(item), 1)
    /\ \A j \in 1..Len(itemOf(block).Children) :
          j <= Len(nestedPairs(item)) =>
              ownTextOnly(nestedPairs(item)[j].item, itemOf(block).Children[j])

\* C3: the rich text of a list-item block is the inline formatting of the
\* item's non-list children only; the text of a nested list is not in it.
C3_ItemTextExcludesNestedLists ==
    (converted /\ last.kind = "List" /\ Len(nodeBlocks) >= 1) =>
        ownTextOnly(last.children[1], nodeBlocks[1])

RECURSIVE childrenFollowNestedLists(_, _)
\* the children of the block of `item` are the items of its nested lists,
\* one block each, in source order, typed by their own list; and so below
childrenFollowNestedLists(item, block) ==
    LET pairs == nestedPairs(item)
        children == itemOf(block).Children
    IN  /\ Len(children) = Len(pairs)
        /\ \A j \in 1..Len(pairs) :
              /\ children[j].Type = listItemType(pairs[j].ordered)
              /\ itemOf(children[j]).RichText[1].Content = itemLabel(pairs[j].item)
              /\ childrenFollowNestedLists(pairs[j].item, children[j])

firstToken(info) == CutBefore(TrimLeft(info), " ")

infoOf(node) == IF node.info # Nil THEN Deref(node.info) ELSE <<>>

\* C5: every code block of a fenced code block carries the alias-table image
\* of the first token of the info string, whatever follows that token; every
\* code block of an indented code block carries "plain text".
C5_LanguageFromFirstToken ==
    (converted /\ isCode(last)) =>
        \A i \in 1..Len(nodeBlocks) :
            Deref(nodeBlocks[i].Code).Language =
                IF last.kind = "FencedCodeBlock"
                THEN mapLanguage(firstToken(infoOf(last)))
                ELSE PlainText

soleImage(node) ==
    node.kind = "Paragraph" /\ Len(node.children) = 1 /\ node.children[1].kind = "Image"

destOf(node) == node.children[1].dest

targetOf(block) == Deref(Deref(block.Image).External).URL

\* C6: for a paragraph whose sole child is an image with an absolute
\* destination, one image block with the destination as target is emitted if
\* the scheme is http or https, and no block and no error otherwise; the
\* configured base URL plays no part.
C6_AbsoluteImageByScheme ==
    (converted /\ soleImage(last) /\ isAbsoluteURL(destOf(last))) =>
        /\ ~ err
        /\ IF urlParse(destOf(last)).Scheme \in {S_http, S_https}
           THEN /\ Len(nodeBlocks) = 1
                /\ nodeBlocks[1].Type = "image"
                /\ targetOf(nodeBlocks[1]) = destOf(last)
           ELSE nodeBlocks = <<>>

\* an https image emitted although a base URL is configured
C6_Witness ==
    /\ converted /\ soleImage(last)
    /\ destOf(last) = D_AbsHttps
    /\ imageBaseURL = B_Path
    /\ Len(nodeBlocks) = 1
    /\ targetOf(nodeBlocks[1]) = D_AbsHttps

T_HostSlashRel == <<"h", "t", "t", "p", "s", ":", "/", "/", "h", "/", "i", ".", "p", "n", "g">>

C8_TrailingSlashIrrelevant ==
    (converted /\ soleImage(last) /\ destOf(last) # <<>> /\ ~ isAbsoluteURL(destOf(last))
        /\ imageBaseURL # <<>> /\ Len(nodeBlocks) = 1) =>
        /\ targetOf(nodeBlocks[1]) = joinURL(imageBaseURL \o <<"/">>, destOf(last))
        /\ urlParse(targetOf(nodeBlocks[1])).Scheme = urlParse(imageBaseURL).Scheme
        /\ urlParse(targetOf(nodeBlocks[1])).Host = urlParse(imageBaseURL).Host

\* C9: code content of at most 2000 characters, the empty content included,
\* yields exactly one code block, whose content it is.
C9_SmallCodeIsOneBlock ==
    (converted /\ isCode(last) /\ Len(concatLines(last.lines)) <= maxChars) =>
        /\ Len(nodeBlocks) = 1
        /\ nodeBlocks[1].Type = "code"
        /\ contentOf(nodeBlocks[1]) = concatLines(last.lines)

\* a content of exactly 2000 characters in one block
C9_Witness ==
    /\ converted /\ isCode(last)
    /\ Len(concatLines(last.lines)) = maxChars
    /\ Len(nodeBlocks) = 1
    /\ Len(contentOf(nodeBlocks[1])) = maxChars

\* the variant field a type tag names
fieldOfType(type) ==
    CASE type = "paragraph" -> "Paragraph"
      [] type = "heading_1" -> "Heading1"
      [] type = "heading_2" -> "Heading2"
      [] type = "heading_3" -> "Heading3"
      [] type = "code" -> "Code"
      [] type = "quote" -> "Quote"
      [] type = "divider" -> "Divider"
      [] type = "image" -> "Image"
      [] type = "bulleted_list_item" -> "BulletedListItem"
      [] type = "numbered_list_item" -> "NumberedListItem"
      [] type = "table" -> "Table"
      [] type = "table_row" -> "TableRow"
      [] OTHER -> "none"

\* the blocks nested in a block: a list item's or a table's children, and the
\* block's own Children field
childBlocks(block) ==
    (IF block.BulletedListItem # Nil THEN Deref(block.BulletedListItem).Children ELSE <<>>)
        \o (IF block.NumberedListItem # Nil THEN Deref(block.NumberedListItem).Children
            ELSE <<>>)
        \o (IF block.Table # Nil THEN Deref(block.Table).Children ELSE <<>>)
        \o block.Children

RECURSIVE oneVariant(_)
\* the block, and every block nested in it, has exactly the variant field of
\* its type tag populated
oneVariant(block) ==
    /\ {f \in VariantFields : block[f] # Nil} = {fieldOfType(block.Type)}
    /\ \A i \in 1..Len(childBlocks(block)) : oneVariant(childBlocks(block)[i])

\* C10: every block Convert produces, at every depth, has exactly one variant
\* field populated, the one its type tag names.
C10_OneVariantPerBlock ==
    \A i \in 1..Len(blocks) : oneVariant(blocks[i])

\* Convert has returned a table with a row and a list item with children
C10_Witness ==
    /\ pc = "done" /\ ~ err
    /\ \E i \in 1..Len(blocks) :
          /\ blocks[i].Type = "table"
          /\ Len(Deref(blocks[i].Table).Children) = 2
    /\ \E i \in 1..Len(blocks) :
          /\ blocks[i].Type = "bulleted_list_item"
          /\ Len(itemOf(blocks[i]).Children) = 3

\* the style flags set on a span
styleOf(span) ==
    IF span.Annotations = Nil THEN {}
    ELSE {f \in {"Bold", "Italic", "Code"} : Deref(span.Annotations)[f]}

RECURSIVE unionStyles(_, _, _)
\* the styles of the spans of children[i..], in order, when every enclosing
\* Emphasis adds its flag to `inherited` and nothing removes one
unionStyles(children, i, inherited) ==
    IF i > Len(children) THEN <<>>
    ELSE LET n == children[i]
         IN  (CASE n.kind \in {"Text", "String", "AutoLink"} -> <<inherited>>
                [] n.kind = "CodeSpan" -> <<inherited \cup {"Code"}>>
                [] n.kind = "Emphasis" ->
                      unionStyles(n.children, 1,
                          inherited \cup {IF n.level = 2 THEN "Bold" ELSE "Italic"})
                [] n.kind = "Image" -> <<>>
                [] OTHER -> unionStyles(n.children, 1, inherited))
             \o unionStyles(children, i + 1, inherited)

\* the spans of the paragraph block produced for the latest node
spansOf(bs) == Deref(bs[1].Paragraph).RichText

\* C11: the style flags of every span of a paragraph are the union of the
\* flags of the Emphasis nodes around it (italic for level 1, bold for
\* level 2) and its own code flag; no Emphasis or Link clears a flag.
C11_StylesComposeByUnion ==
    (converted /\ last.kind = "Paragraph" /\ ~ hasImage(last) /\ nodeBlocks # <<>>) =>
        LET spans == spansOf(nodeBlocks)
            styles == unionStyles(last.children, 1, {})
        IN  /\ Len(spans) = Len(styles)
            /\ \A i \in 1..Len(spans) : styleOf(spans[i]) = styles[i]

\* a bold span nested inside italic emphasis, next to a code span: the bold
\* span carries bold and italic, the code span code and italic
C11_Witness ==
    /\ converted /\ last.kind = "Paragraph" /\ Len(last.children) = 1
    /\ last.children[1].kind = "Emphasis" /\ last.children[1].level = 1
    /\ Len(nodeBlocks) = 1 /\ Len(spansOf(nodeBlocks)) = 2
    /\ styleOf(spansOf(nodeBlocks)[1]) = {"Code", "Italic"}
    /\ styleOf(spansOf(nodeBlocks)[2]) = {"Bold", "Italic"}

\* the type tag and the variant field of a heading of levels 1, 2, 3
headingTag(level) ==
    CASE level = 1 -> [Type |-> "heading_1", Field |-> "Heading1"]
      [] level = 2 -> [Type |-> "heading_2", Field |-> "Heading2"]
      [] level = 3 -> [Type |-> "heading_3", Field |-> "Heading3"]

\* C12: a heading of level 1, 2 or 3 yields one block of type heading_1,
\* heading_2 or heading_3 with the field of that name populated; a heading of
\* level 4 or more yields what level 3 yields, heading_3 with Heading3.
C12_HeadingLevelsClampToThree ==
    (converted /\ last.kind = "Heading") =>
        LET tag == headingTag(IF last.level >= 4 THEN 3 ELSE last.level)
        IN  /\ Len(nodeBlocks) = 1
            /\ nodeBlocks[1].Type = tag.Type
            /\ nodeBlocks[1][tag.Field] # Nil
            /\ Deref(nodeBlocks[1][tag.Field]).RichText = <<RichText(<<"H">>)>>

\* a level-6 heading converted to heading_3
C12_Witness ==
    /\ converted /\ last.kind = "Heading" /\ last.level = 6
    /\ Len(nodeBlocks) = 1
    /\ nodeBlocks[1].Type = "heading_3"
    /\ nodeBlocks[1].Heading3 # Nil

\* the subsequence of the elements of a sequence whose kind is in kinds
OfKind(seq, kinds) == SelectSeq(seq, LAMBDA n : n.kind \in kinds)

RECURSIVE plainText(_, _)
\* the text of the leaves under children[i..], in source order
plainText(children, i) ==
    IF i > Len(children) THEN <<>>
    ELSE (IF children[i].kind \in {"Text", "String", "CodeSpan", "AutoLink"}
          THEN children[i].value
          ELSE plainText(children[i].children, 1)) \o plainText(children, i + 1)

RECURSIVE spansText(_)
spansText(spans) ==
    IF spans = <<>> THEN <<>> ELSE Head(spans).Content \o spansText(Tail(spans))

\* the row block holds one cell per TableCell of the row, in order, each of
\* at least one span carrying the cell's text
rowMatches(block, row) ==
    /\ block.Type = "table_row"
    /\ block.TableRow # Nil
    /\ LET cells == Deref(block.TableRow).Cells
           src == OfKind(row.children, {"TableCell"})
       IN  /\ Len(cells) = Len(src)
           /\ \A j \in 1..Len(cells) :
                 /\ Len(cells[j]) >= 1
                 /\ spansText(cells[j]) = plainText(src[j].children, 1)
                 /\ src[j].children = <<>> => cells[j] = <<RichText(<<>>)>>

RecognizedKinds ==
    {"Heading", "Paragraph", "List", "Blockquote", "CodeBlock", "FencedCodeBlock",
     "ThematicBreak", "HTMLBlock", "Table"}

\* the nodes skipped by policy: an HTML block, a node of no recognized kind,
\* a paragraph without text, and a paragraph of one image whose destination
\* is empty, an attachment or data URL, absolute with a scheme other than
\* http and https, or relative when no base URL is configured
policySkip(node, baseURL) ==
    \/ node.kind = "HTMLBlock"
    \/ node.kind \notin RecognizedKinds
    \/ node.kind = "Paragraph" /\ ~ soleImage(node) /\ unionStyles(node.children, 1, {}) = <<>>
    \/ /\ soleImage(node)
       /\ \/ destOf(node) = <<>>
          \/ HasPrefix(destOf(node), P_attachment)
          \/ HasPrefix(destOf(node), P_data)
          \/ isAbsoluteURL(destOf(node)) /\ urlParse(destOf(node)).Scheme \notin {S_http, S_https}
          \/ ~ isAbsoluteURL(destOf(node)) /\ baseURL = <<>>

\* C14: Convert returns blocks with no error or an error with no blocks,
\* never both; a node skipped by policy contributes no block and is never the
\* node Convert fails on.
C14_BlocksOrErrorNeverBoth ==
    /\ err => blocks = <<>>
    /\ err => ~ policySkip(doc[child], imageBaseURL)
    /\ (~ err /\ converted /\ policySkip(last, imageBaseURL)) => nodeBlocks = <<>>
    /\ (pc = "done" /\ \A i \in 1..Len(doc) : policySkip(doc[i], imageBaseURL)) =>
            (~ err /\ blocks = <<>>)

\* Convert has returned from a document of a skipped node followed by a
\* converted one: one block, no error
C14_Witness ==
    /\ pc = "done" /\ ~ err
    /\ Len(doc) = 2
    /\ policySkip(doc[1], imageBaseURL)
    /\ ~ policySkip(doc[2], imageBaseURL)
    /\ Len(blocks) = 1

-----------------------------------------------------------------------------
(* Properties of the sync operations (RunSpec) *)

\* C15: in append, replace and create, every write request sent to the
\* server carries at most chunkSize (25) blocks.
C15_WritesCarryAtMostOneBatch ==
    \A k \in 1..Len(net) : isWrite(net[k]) => Len(net[k].children) <= chunkSize

RECURSIVE concatBatches(_)
concatBatches(bs) ==
    IF bs = <<>> THEN <<>> ELSE Head(bs) \o concatBatches(Tail(bs))

\* ceil(n / size)
ceilDiv(n, size) == (n + size - 1) \div size

\* the k-th of the consecutive slices of at most size elements of bs
sliceOf(bs, k, size) ==
    SubSeq(bs, (k - 1) * size + 1, IF k * size > Len(bs) THEN Len(bs) ELSE k * size)

uploaded == rpc = "done" /\ runErr = Nil /\ operation \in {"append", "replace"}

\* C16: the chunks AppendBlockChildren calls makeRequest with are, in call
\* order, the consecutive slices of 25 blocks of its input, each non-empty
\* and of at most 25 blocks; an upload of n blocks that has succeeded has made
\* ceil(n / 25) calls (none for n = 0), whose chunks concatenated are the input.
C16_ChunksAreConsecutiveSlices ==
    /\ \A k \in 1..Len(batches) :
          /\ batches[k] = sliceOf(runBlocks, k, chunkSize)
          /\ Len(batches[k]) >= 1
          /\ Len(batches[k]) <= chunkSize
    /\ Len(batches) <= ceilDiv(Len(runBlocks), chunkSize)
    /\ uploaded =>
          /\ Len(batches) = ceilDiv(Len(runBlocks), chunkSize)
          /\ concatBatches(batches) = runBlocks

\* 51 blocks appended in three calls, the last one with one block
C16_Witness ==
    /\ uploaded /\ operation = "append"
    /\ Len(runBlocks) = 2 * chunkSize + 1
    /\ Len(batches) = 3
    /\ Len(batches[1]) = chunkSize /\ Len(batches[2]) = chunkSize /\ Len(batches[3]) = 1

\* the new blocks among the children of the page, in page order
written == SelectSeq(remote, LAMBDA b : b > 0)

isPrefix(p, q) == Len(p) <= Len(q) /\ p = SubSeq(q, 1, Len(p))

\* no two requests are in flight at once
oneInFlight == Len(net) <= 1

\* a batch is sent only when every batch before it has succeeded, and none is
\* sent once an error has been returned
sentInOrder ==
    [][batches' # batches =>
          (runErr = Nil /\ chunkStart = Len(batches) * chunkSize)]_vars

\* AppendBlockChildren moves past a batch only when its makeRequest has
\* returned nil
advanceOnSuccess ==
    [][chunkStart' > chunkStart => (mpc = "ret" /\ mret = Nil)]_vars

\* once Run has returned an error nothing is sent any more
nothingAfterError ==
    [][runErr # Nil => (batches' = batches /\ net' = net /\ remote' = remote)]_vars

\* the error of a failed batch is returned
errorReturned ==
    (rpc = "append" /\ mpc = "ret" /\ mret # Nil) ~> (rpc = "done" /\ runErr # Nil)

\* C17: the batches of one append are sent one after the other in document
\* order, each only after the one before has succeeded, never two in flight;
\* after a failed batch no batch is sent and the error is returned; so the
\* blocks written on the page are always a prefix of the block sequence.
C17_BatchesInOrderRemoteIsPrefix ==
    /\ []oneInFlight
    /\ sentInOrder
    /\ advanceOnSuccess
    /\ nothingAfterError
    /\ errorReturned
    /\ [](operation \in {"append", "replace"} => isPrefix(written, runBlocks))

\* the answer of the current iteration is a response of a status below 400
\* whose body, where a result is asked for, decodes
succeeded ==
    /\ resp # Nil
    /\ Deref(resp).kind = "http"
    /\ Deref(resp).status < 400
    /\ Deref(req).result => Deref(resp).body = "json"

\* C18: one makeRequest calls httpClient.Do at most MaxRetries + 1 = 4 times
\* whatever fails (transport, 5xx, 429); on the first successful response it
\* returns nil without a further attempt, and nil is returned for no other
\* reason; once four attempts have failed it returns an error.
C18_AtMostFourAttempts ==
    /\ attempts <= MaxRetries + 1
    /\ attempt <= MaxRetries + 1
    /\ succeeded => (mpc = "resp" \/ (mpc = "ret" /\ mret = Nil))
    /\ (mpc = "ret" /\ mret = Nil) => succeeded
    /\ attempt > MaxRetries =>
          \/ mpc = "top"
          \/ mpc = "ret" /\ mret # Nil /\ Deref(mret).kind = "exhausted"

\* four attempts answered 500: the error after the ceiling
C18_Witness ==
    /\ mpc = "ret"
    /\ attempts = MaxRetries + 1
    /\ mret = Ptr(Error("exhausted", 500))

\* the answer of the current iteration is a 4xx response other than 429
clientError ==
    /\ resp # Nil
    /\ Deref(resp).kind = "http"
    /\ Deref(resp).status \in 400..499
    /\ Deref(resp).status # 429

\* C19: on a 4xx response other than 429 the next step of makeRequest is to
\* return the error of that response, without another attempt, and the call
\* is over once it has returned, however many attempts remain.
C19_ClientErrorIsFatal ==
    /\ [][(mpc = "resp" /\ clientError /\ mpc' # "resp") =>
            /\ mpc' = "ret"
            /\ mret' = Ptr(handleErrorResponse(Deref(resp).status))
            /\ attempts' = attempts
            /\ net' = net]_vars
    /\ [][mpc = "ret" => (mpc' \in {"ret", "idle"} /\ net' = net)]_vars

\* a 404 on the first attempt: returned with three attempts unused
C19_Witness ==
    /\ mpc = "ret"
    /\ clientError
    /\ attempt = 0 /\ attempts = 1
    /\ mret = Ptr(Error("api", 404))

\* makeRequest is in one of its two waits and the closing of ctx.Done() is
\* what has woken it
cancelledInWait == mpc \in Waits /\ wake = "cancel"

\* C20: when the context is cancelled while makeRequest waits (backoff wait
\* or rate-limit wait), makeRequest returns the context's error: its next
\* step is that return, no HTTP attempt is made on the way, and the return
\* does come.
C20_CancelEndsTheWait ==
    /\ [][(cancelledInWait /\ mpc' # mpc) =>
            /\ mpc' = "ret"
            /\ mret' = Ptr(Error("ctx", 0))
            /\ attempts' = attempts
            /\ net' = net]_vars
    /\ cancelledInWait ~> (mpc = "ret" /\ mret = Ptr(Error("ctx", 0)))

\* cancelled in the rate-limit wait that follows a 429 on the first
\* attempt: returned with the context's error after one attempt
C20_Witness ==
    /\ mpc = "ret"
    /\ mret = Ptr(Error("ctx", 0))
    /\ resp # Nil /\ Deref(resp).status = 429
    /\ attempts = 1

\* the children the page had before the run that are still on it
leftOver == SelectSeq(remote, LAMBDA b : b < 0)

\* the blocks DeleteBlock has been called for
deleteCalls ==
    SubSeq(allBlocks, 1,
           IF rpc = "delete" /\ mpc # "idle" THEN delIdx
           ELSE IF rpc = "delete" THEN delIdx - 1
           ELSE Len(allBlocks))

\* the elements of a sequence
Range(seq) == {seq[k] : k \in 1..Len(seq)}

\* C21: in a replace run DeleteBlock is called for every existing child of
\* the page before the first append request is sent; a DeleteBlock that
\* fails does not end the run: the next deletion follows, the deletions
\* end in the append and nowhere else, the append is reached, and the
\* error Run returns after the listing is the append's.
C21_ReplaceDeletesAllThenAppends ==
    /\ [](operation = "replace" /\ batches # <<>> =>
            /\ rpc \in {"append", "done"}
            /\ deleteCalls = allBlocks
            /\ Range(leftOver) \subseteq Range(allBlocks))
    /\ [][rpc = "delete" /\ mpc = "ret" /\ mpc' # mpc =>
            rpc' = "delete" /\ delIdx' = delIdx + 1 /\ runErr' = Nil]_vars
    /\ [][rpc = "delete" /\ rpc' # "delete" =>
            rpc' = "append" /\ delIdx > Len(allBlocks) /\ batches = <<>>]_vars
    /\ [][operation = "replace" /\ rpc = "append" /\ rpc' = "done" =>
            runErr' = mret]_vars
    /\ (operation = "replace" /\ rpc = "delete") ~> (batches # <<>>)

\* a replace run that ended well although a deletion failed: a child the
\* page had before is still on it, in front of the new blocks
C21_Witness ==
    /\ operation = "replace" /\ rpc = "done" /\ runErr = Nil
    /\ allBlocks # <<>>
    /\ leftOver # <<>>
    /\ written = runBlocks

\* makeRequest has returned the error it makes of a server response: that of
\* a 4xx, or that of its retries running out after a response
fatalFromResponse ==
    /\ mpc = "ret" /\ mret # Nil
    /\ Deref(mret).kind \in {"api", "exhausted"}
    /\ lastStatus >= 400

\* C22: when makeRequest fails because of the server's responses (a 4xx
\* other than 429, or the retries running out on 5xx and 429 responses),
\* the error it returns carries the status of the last failing response.
C22_ErrorCarriesLastStatus ==
    fatalFromResponse => Deref(mret).status = lastStatus

\* the header is an integer: an optional sign and digits
isInteger(h) ==
    LET digits == IF h # <<>> /\ h[1] \in {"+", "-"} THEN Tail(h) ELSE h
    IN  digits # <<>> /\ \A k \in 1..Len(digits) : digits[k] \in Digits

\* the nanoseconds of the integer number of seconds h, computed on 96 bits,
\* which hold every product of a 64-bit number of seconds without wrapping
exactSeconds(h) ==
    LET signed == h[1] \in {"+", "-"}
        magnitude == digitsValue(IF signed THEN Tail(h) ELSE h, 1,
                                 [value |-> <<0, 0, 0, 0, 0, 0>>, over |-> FALSE]).value
    IN  timesSecond(IF h[1] = "-" THEN negate(magnitude) ELSE magnitude)

\* a 64-bit duration on 96 bits
widen(d) == (IF isNegative(d) THEN <<Limb - 1, Limb - 1>> ELSE <<0, 0>>) \o d

\* a >= b, for two numbers of the same width
atLeast(a, b) ==
    IF isNegative(a) # isNegative(b) THEN isNegative(b)
    ELSE \/ a = b
         \/ \E i \in 1..Len(a) : a[i] > b[i] /\ \A j \in 1..(i - 1) : a[j] = b[j]

\* C23: after a 429 whose Retry-After header is an integer N, the wait
\* before the next attempt is of at least N seconds, and of the base backoff
\* when the header is absent or no integer; the request goes on to its next
\* attempt only once the timer of that wait has fired.
C23_RateLimitWaitHonoursRetryAfter ==
    /\ [](mpc = "rateWait" =>
            IF isInteger(Deref(resp).retryAfter)
            THEN atLeast(widen(waitDur), exactSeconds(Deref(resp).retryAfter))
            ELSE waitDur = Seconds(BaseBackoff))
    /\ [][mpc = "rateWait" /\ mpc' = "top" => wake = "timer"]_vars

\* the backoff after n doublings of the base backoff, held to the cap
backoffAfter(n) ==
    IF BaseBackoff * 2^n > MaxBackoff THEN MaxBackoff ELSE BaseBackoff * 2^n

\* C24: within one request the backoff doubles after every transient
\* failure, a 429 like a server error: at the retry that follows n failed
\* attempts it is the base backoff doubled n times, and the backoff waited
\* before a retry is never above MaxBackoff.
C24_BackoffDoublesOnEveryFailure ==
    /\ mpc \in {"top", "backoffWait", "do"} => backoff = backoffAfter(attempt)
    /\ mpc = "backoffWait" => waitDur = Seconds(backoff) /\ backoff <= MaxBackoff

\* no request has been made and the page is as it was
untouched ==
    /\ requestIdle
    /\ net = <<>> /\ batches = <<>> /\ pages = 0
    /\ remote = OldBlocks(Len(remote))
    /\ allBlocks = <<>>

\* C25: in a dry run Run makes no request at all (no list, delete, append
\* or create), whatever Create and Replace are; all it does is write the
\* JSON of the converted blocks, and it returns an error only if that write
\* fails.
C25_DryRunMakesNoRequest ==
    dryRun =>
        /\ untouched
        /\ rpc \in {"start", "done"}
        /\ output \in {Nil, Ptr(runBlocks)}
        /\ rpc = "done" /\ runBlocks # <<>> =>
              \/ output = Ptr(runBlocks) /\ runErr = Nil
              \/ output = Nil /\ runErr = Ptr(Error("write", 0))

\* a dry run with --create and --replace both set, on 26 blocks, is over:
\* the blocks are written and the page still has its children
C25_Witness ==
    /\ dryRun /\ mode = "both"
    /\ rpc = "done"
    /\ Len(runBlocks) = chunkSize + 1
    /\ output = Ptr(runBlocks)
    /\ remote # <<>>

-----------------------------------------------------------------------------
(* Properties of the splitting of code (Spec) *)

\* the code content of the node converted last was split
codeWasSplit ==
    converted /\ isCode(last) /\ Len(concatLines(last.lines)) > maxChars

RECURSIVE lengthBefore(_, _)
\* the length of the contents of the blocks before block k
lengthBefore(bs, k) ==
    IF k = 1 THEN 0 ELSE lengthBefore(bs, k - 1) + Len(contentOf(bs[k - 1]))

\* what is left of the content when chunk k is cut
leftAt(k) ==
    SubSeq(concatLines(last.lines), lengthBefore(nodeBlocks, k) + 1,
           Len(concatLines(last.lines)))

\* the positions (1-based) of the newlines among the first maxChars
\* characters of the content left
newlinesOfCandidate(left) == {i \in 1..maxChars : i <= Len(left) /\ left[i] = "\n"}

Greatest(set) == CHOOSE i \in set : \A j \in set : j <= i

\* the cut of a full candidate with content after it: just after its last
\* newline when that newline is at most maxChars - 200 characters before
\* the boundary, else at maxChars
cutWithin1800(left) ==
    IF Len(left) <= maxChars THEN Len(left)
    ELSE IF /\ newlinesOfCandidate(left) # {}
            /\ maxChars - Greatest(newlinesOfCandidate(left))
                  <= maxChars - minDistanceFromLimit
    THEN Greatest(newlinesOfCandidate(left))
    ELSE maxChars

cutWithin200(left) ==
    IF Len(left) <= maxChars THEN Len(left)
    ELSE IF \E i \in newlinesOfCandidate(left) : i - 1 > maxChars - minDistanceFromLimit
    THEN Greatest(newlinesOfCandidate(left))
    ELSE maxChars

C27_ChunksBoundedLoopEnds ==
    codeWasSplit =>
        /\ \A k \in 1..Len(nodeBlocks) :
              /\ nodeBlocks[k].Type = "code"
              /\ Len(contentOf(nodeBlocks[k])) \in 1..maxChars
              /\ lengthBefore(nodeBlocks, k + 1) > lengthBefore(nodeBlocks, k)
        /\ lengthBefore(nodeBlocks, Len(nodeBlocks) + 1) = Len(concatLines(last.lines))
        /\ Len(nodeBlocks) >= ceilDiv(Len(concatLines(last.lines)), maxChars)

\* a content of two chunks' length that was split in three, a cut having
\* been moved back to a newline
C27_Witness ==
    /\ codeWasSplit
    /\ ceilDiv(Len(concatLines(last.lines)), maxChars) = 2
    /\ Len(nodeBlocks) = 3
    /\ \E k \in 1..2 : Len(contentOf(nodeBlocks[k])) < maxChars

\* the bytes are the encodings of whole characters: single bytes, and lead
\* bytes followed by their continuation byte
wellFormed(s) ==
    \A i \in 1..Len(s) :
        /\ s[i] = EAcute[1] => i < Len(s) /\ s[i + 1] = EAcute[2]
        /\ s[i] = EAcute[2] => i > 1 /\ s[i - 1] = EAcute[1]

\* C28: when a code content with multi-byte characters is split, every cut
\* falls on a character boundary: the content of every code block is
\* well-formed text.
C28_CutsOnCharacterBoundaries ==
    codeWasSplit => \A k \in 1..Len(nodeBlocks) : wellFormed(contentOf(nodeBlocks[k]))

\* validateConfig accepts the configuration, so that Run gets to Convert
validConfig == dryRun \/ mode # "both"

\* C29: when the conversion yields no block, Run makes no request in any
\* mode, writes nothing and returns nil; a replace run neither lists nor
\* deletes the children of the page.
C29_NoBlocksNoRemoteOperation ==
    runBlocks = <<>> /\ validConfig /\ rpc # "idle" =>
        /\ untouched
        /\ rpc \in {"start", "done"}
        /\ runErr = Nil
        /\ output = Nil

\* a replace run of an empty document is over and the page has kept its
\* children
C29_Witness ==
    /\ operation = "replace" /\ runBlocks = <<>>
    /\ rpc = "done" /\ runErr = Nil
    /\ remote = OldBlocks(MaxExisting)

\* ListBlockChildren has got the answer to a page request
pageReturned == rpc = "list" /\ mpc = "ret"

\* C30: ListBlockChildren asks for the first page without a cursor and for
\* every following page with the cursor of the response before, so never
\* for the same page twice; it stops at the first response with has_more =
\* false and then returns the results of all pages in page order; when a
\* page request fails it returns the error and no blocks.  The listing ends.
C30_ListFollowsCursorsToTheEnd ==
    /\ [](rpc = "list" =>
            /\ cursor = IF allBlocks = <<>> THEN Nil ELSE Ptr(Len(allBlocks))
            /\ req # Nil => Deref(req).cursor = cursor
            /\ allBlocks = SubSeq(remote, 1, Len(allBlocks)))
    /\ [][pageReturned /\ mpc' # mpc /\ mret = Nil /\ Deref(resp).hasMore =>
            /\ rpc' = "list"
            /\ cursor' = Deref(resp).nextCursor
            /\ cursor' # cursor
            /\ allBlocks' = allBlocks \o Deref(resp).results]_vars
    /\ [][pageReturned /\ mpc' # mpc /\ mret = Nil /\ ~ Deref(resp).hasMore =>
            /\ rpc' = "delete"
            /\ allBlocks' = allBlocks \o Deref(resp).results
            /\ allBlocks' = remote]_vars
    /\ [][pageReturned /\ mpc' # mpc /\ mret # Nil =>
            /\ rpc' = "done"
            /\ runErr' = mret
            /\ allBlocks' = <<>>]_vars
    /\ (rpc = "list") ~> (rpc # "list")

\* the children of the page were listed in two pages, the second asked for
\* with the cursor of the first
C30_Witness ==
    /\ rpc = "delete" /\ delIdx = 1 /\ mpc = "idle"
    /\ cursor = Ptr(1)
    /\ Len(allBlocks) = 2
    /\ allBlocks = remote

====
